---- MODULE Spec2Model ----
(***************************************************************************)
(* State-machine model of ArturiaMidiProcessor (arturia_processor.py): the *)
(* routing of controller events, the button-modifier mask, the long-press  *)
(* detector, the relative-encoder decoder and the navigation mode cursor.  *)
(*                                                                         *)
(* Handlers are translated as functions from the session state (a record   *)
(* s holding the object's fields and the collaborators' state) to the      *)
(* state after the handler has run to completion; an action of the model   *)
(* applies one handler to the current state.  Calls into the host are      *)
(* appended to s.calls, which holds the calls made by the last step.       *)
(***************************************************************************)
EXTENDS Integers, Sequences, FiniteSets, TLC

VARIABLES
    SCRIPT_VERSION,                  \* general.getVersion(), fixed at load
    _button_mode,                    \* self._button_mode
    _button_hold_action_committed,   \* self._button_hold_action_committed
    _pattern_mode_down,              \* self._pattern_mode_down
    _playlist_track_updated,         \* self._playlist_track_updated
    _is_pad_recording,               \* self._is_pad_recording
    _current_playlist_track_index,   \* self._current_playlist_track_index
    _long_press_tasks,               \* self._long_press_tasks: control -> task
    navIndex,                        \* NavigationMode: index of active mode
    scheduled,                       \* Scheduler: every task ever scheduled
    trackMarked,                     \* playlist: tracks whose name has '* '
    patternNumber,                   \* patterns.patternNumber() of the host
    calls,                           \* host calls made by the last step
    lastEvent,                       \* the event the last step processed
    held,                            \* controls pressed and not yet released
    turnedWhileHeld,                 \* buttons that saw a hold action applied
    taskRuns,                        \* per task: runs of long_fn and short_fn
    returned,                        \* what ProcessEvent returned in the last step
    activePage,                      \* paged display: the page being shown
    hintExpiresIn,                   \* paged display: ms until the hint expires
    sinceHint,                       \* ms since a hint was last shown, capped
    arrowTurned,                     \* held arrows that saw a hold action applied
    saveOps                          \* a playlist track operation since save went down

\* the paged display, followed in the hint specification only
display == <<activePage, hintExpiresIn, sinceHint>>

vars == <<SCRIPT_VERSION, _button_mode, _button_hold_action_committed,
          _pattern_mode_down, _playlist_track_updated, _is_pad_recording,
          _current_playlist_track_index, _long_press_tasks, navIndex,
          scheduled, trackMarked, patternNumber, calls, lastEvent, held, turnedWhileHeld,
          taskRuns, returned, activePage, hintExpiresIn, sinceHint,
          arrowTurned, saveOps>>

---------------------------------------------------------------------------
(* Bounds of the model *)

\* number of long-press tasks scheduled in one run
MaxTasks == 3
\* playlist.trackCount() of the host
TrackCount == 2
\* largest 7-bit control value
MaxControlVal == 127

\* number of buttons held down at the same time
MaxHeld == 2
\* number of arrow presses in one run of the button specification
MaxArrowPresses == 1

\* host versions tried: one before 8, one after
Versions == {7, 20}
\* control values the main encoder sends (one step up, one step down)
KnobVals == {1, 65}
\* pan knobs turned (first and last of 16..24)
PanKnobs == {16, 24}

---------------------------------------------------------------------------
(* Constants of the program *)

LOOP_BUTTON_MASK == 1
REC_BUTTON_MASK == 2
PLAY_BUTTON_MASK == 4
STOP_BUTTON_MASK == 8
\* 0x16
LEFT_BUTTON_MASK == 22
\* 0x32
RIGHT_BUTTON_MASK == 50

\* message classes of _midi_id_dispatcher
CommandId == 144
KnobId == 176
SliderId == 224

\* control numbers of _midi_command_dispatcher and _knob_dispatcher
StopCtl == 93
PlayCtl == 94
RecCtl == 95
LoopCtl == 86
SaveCtl == 80
UndoCtl == 81
LeftCtl == 98
RightCtl == 99
BankNextCtl == 49
BankPrevCtl == 48
NavKnobCtl == 60
LivePart1Ctl == 47
TrackReadCtl == 74
TrackWriteCtl == 75
\* the first of the solo buttons 8..15 and of the mute buttons 16..23
SoloCtl == 8
MuteCtl == 16

\* value of a button press (any nonzero value is a press)
PressVal == 127

---------------------------------------------------------------------------
(* Integer bit operations, as Python computes them on small masks *)

RECURSIVE BitAnd(_, _)
BitAnd(a, b) ==
    IF a = 0 \/ b = 0 THEN 0
    ELSE (a % 2) * (b % 2) + 2 * BitAnd(a \div 2, b \div 2)

RECURSIVE BitOr(_, _)
BitOr(a, b) ==
    IF a = 0 THEN b
    ELSE IF b = 0 THEN a
    ELSE (IF a % 2 = 1 \/ b % 2 = 1 THEN 1 ELSE 0)
         + 2 * BitOr(a \div 2, b \div 2)

\* a & ~m
BitAndNot(a, m) == a - BitAnd(a, m)

---------------------------------------------------------------------------
(* Events and the log of host calls *)

Event(midiId, controlNum, controlVal) ==
    [kind |-> "midi", midiId |-> midiId, status |-> midiId,
     controlNum |-> controlNum, controlVal |-> controlVal]

\* channel volume the host answers, in hundredths of full scale, where the
\* volume specification does not choose it
VolumeLevels == {0}

\* mixer.trackCount() of the host, the mixer track the selected channel is
\* routed to, the channel _channel_with_route_to_mixer_track finds (-1 for
\* none) and whether the two mixer tracks bear the same name, where the
\* mixer specification does not choose them
MixerAnswers ==
    [mixerTrackCount : {127}, targetFxTrack : {0}, routedChannel : {-1},
     sameTrackName : {FALSE}]

\* what the host answers when a handler queries it during one event
HostAnswers ==
    [timelineFocused : BOOLEAN, songMode : BOOLEAN, focusOnPlay : BOOLEAN,
     volume : VolumeLevels, mixer : MixerAnswers]
NoAnswers ==
    [timelineFocused |-> FALSE, songMode |-> FALSE, focusOnPlay |-> FALSE,
     volume |-> 0,
     mixer |-> [mixerTrackCount |-> 127, targetFxTrack |-> 0,
                routedChannel |-> -1, sameTrackName |-> FALSE]]

Call(s, fn, arg) == [s EXCEPT !.calls = Append(@, [fn |-> fn, arg |-> arg])]

Calls(cs, fn) == {i \in DOMAIN cs : cs[i].fn = fn}
Called(cs, fn) == Calls(cs, fn) # {}
CalledWith(cs, fn, arg) == \E i \in Calls(cs, fn) : cs[i].arg = arg

_is_pressed(event) == event.controlVal # 0

circular(low, high, x) ==
    IF x > high THEN low + (x - high - 1)
    ELSE IF x < low THEN high - (low - x - 1)
    ELSE x

clip(low, high, x) ==
    LET m == IF high < x THEN high ELSE x
    IN  IF low > m THEN low ELSE m

\* variant: the sign threshold is off by one
_get_knob_delta_inclusive(event) ==
    LET val == event.controlVal
    IN  IF val <= 64 THEN val ELSE 64 - val

_get_knob_delta(event) ==
    LET val == event.controlVal
    IN  IF val < 64 THEN val ELSE 64 - val

---------------------------------------------------------------------------
(* Host collections: playlist tracks and patterns.  A track's name is its *)
(* fixed base name, prefixed by '* ' when the track is in trackMarked.    *)

\* patterns.patternCount() of the host
PatternCount == 2

\* base names (without marker) of the playlist tracks and of the patterns
TrackBaseName(i) == i
PatternBaseName(j) == j

\* name.startswith('* ') for the name of track i
TrackHasMarker(s, i) == i \in s.trackMarked

_deselect_all_playlist_track(s) ==
    [s EXCEPT !.trackMarked = @ \ (1 .. (TrackCount - 1))]

_select_pattern_named(s, name) ==
    LET found == {i \in 1 .. PatternCount : PatternBaseName(i) = name}
    IN  IF found = {} THEN s
        ELSE LET i == CHOOSE k \in found : \A m \in found : k <= m
             IN  Call([s EXCEPT !.patternNumber = i],
                      "patterns.jumpToPattern", i)

_select_playlist_track(s, track_index) ==
    LET name == TrackBaseName(track_index)
        s1 == [s EXCEPT !._current_playlist_track_index = track_index]
    IN  IF TrackHasMarker(s, track_index) THEN s1
        ELSE LET s2 == _deselect_all_playlist_track(s1)
                 s3 == _select_pattern_named(s2, name)
             IN  [s3 EXCEPT !.trackMarked = @ \cup {track_index}]

_select_playlist_track_named(s, name) ==
    LET found == {i \in 1 .. (TrackCount - 1) : TrackBaseName(i) = name}
    IN  IF found = {} THEN s
        ELSE _select_playlist_track(
                 s, CHOOSE k \in found : \A m \in found : k <= m)

_jump_and_sync_select_pattern(s, index) ==
    LET s1 == Call([s EXCEPT !.patternNumber = index],
                   "patterns.jumpToPattern", index)
    IN  _select_playlist_track_named(s1, PatternBaseName(index))

\* expires=1500 of the hint page, in ms
HintExpires == 1500

\* paged_display().SetPageLines('hint', ...)
SetHintLines(s) == Call(s, "paged_display.SetPageLines.hint", 0)

\* paged_display().SetActivePage('hint', expires)
SetActivePageHint(s, expires) ==
    Call(s, "paged_display.SetActivePage.hint", expires)

\* variant: the hint page is made active without an expiry
_display_hint_no_expiry(s) == SetActivePageHint(SetHintLines(s), 0)

_display_hint(s) == SetActivePageHint(SetHintLines(s), HintExpires)

_display_playlist_track_op_hint(s) == _display_hint(s)

_display_playlist_track_hint(s) == _display_playlist_track_op_hint(s)

_change_playlist_track(s, delta) ==
    LET next == s._current_playlist_track_index + delta
        s1 == IF 0 < next /\ next <= TrackCount
              THEN _select_playlist_track(s, next) ELSE s
        s2 == _display_playlist_track_hint(s1)
    IN  [s2 EXCEPT !._playlist_track_updated = TRUE]

---------------------------------------------------------------------------
(* NavigationMode (arturia_navigation): the ordered list of modes built in *)
(* __init__ and the cursor over it.                                        *)

\* variant: the Pitch mode is added whatever the host version
NavModes_always_pitch(version) ==
    <<"Channel", "Volume", "Panning", "Pitch",
      "Time Marker", "Red Color", "Green Color", "Blue Color",
      "Plugin Preset", "Pattern", "Playlist Track", "Target Mix Track">>

NavModes(version) ==
    <<"Channel", "Volume", "Panning">>
    \o (IF version >= 8 THEN <<"Pitch">> ELSE <<>>)
    \o <<"Time Marker", "Red Color", "Green Color", "Blue Color",
         "Plugin Preset", "Pattern", "Playlist Track", "Target Mix Track">>

NumModes(s) == Len(NavModes(s.SCRIPT_VERSION))

GetMode(s) == NavModes(s.SCRIPT_VERSION)[s.navIndex + 1]

NextMode(s) ==
    Call([s EXCEPT !.navIndex = (@ + 1) % NumModes(s)],
         "NavigationMode.NextMode", 0)

PreviousMode(s) ==
    Call([s EXCEPT !.navIndex = (@ - 1) % NumModes(s)],
         "NavigationMode.PreviousMode", 0)

\* variant: the new index is not clamped to the playlist
OnUpdatePlaylistTrack_unclamped(s, delta) ==
    _select_playlist_track(s, s._current_playlist_track_index + delta)

OnUpdatePlaylistTrack(s, delta) ==
    LET sum == s._current_playlist_track_index + delta
        lo == IF TrackCount < sum THEN TrackCount ELSE sum
        track == IF 1 > lo THEN 1 ELSE lo
    IN  _select_playlist_track(s, track)

OnUpdatePattern(s, delta) ==
    _jump_and_sync_select_pattern(
        s, clip(1, PatternCount, s.patternNumber + delta))

\* variant: the new volume is written without being clamped
OnUpdateVolume_unclamped(s, delta, host) ==
    Call(Call(s, "channels.getChannelVolume", host.volume),
         "channels.setChannelVolume", host.volume + delta)

\* volumes are counted in hundredths of full scale: delta / 100.0 is delta
\* hundredths, and the range [0., 1.] is 0 .. 100
OnUpdateVolume(s, delta, host) ==
    Call(Call(s, "channels.getChannelVolume", host.volume),
         "channels.setChannelVolume", clip(0, 100, host.volume + delta))

OnUpdateTargetMixerTrack(s, delta, host) ==
    LET max_track_idx == host.mixer.mixerTrackCount - 2
        prev_track == host.mixer.targetFxTrack
        target_track == circular(0, max_track_idx, prev_track + delta)
        channel_idx == host.mixer.routedChannel
        s1 == Call(Call(s, "mixer.trackCount", host.mixer.mixerTrackCount),
                   "channels.getTargetFxTrack", prev_track)
        s2 == Call(Call(s1, "mixer.setTrackNumber", target_track),
                   "mixer.linkTrackToChannel", 0)
        s3 == IF channel_idx < 0
              THEN Call(s2, "mixer.setTrackName.empty", prev_track)
              ELSE IF host.mixer.sameTrackName
              THEN Call(s2, "mixer.setTrackName.channel", prev_track)
              ELSE s2
    IN  IF target_track = 0
        THEN Call(s3, "mixer.setTrackName.empty", target_track)
        ELSE s3

\* the turn-handler registered with AddMode for each mode; handlers that
\* only read and write the host's channel, mixer or transport state are
\* recorded as the call of the handler
ModeTurnHandler(s, delta, host) ==
    LET mode == GetMode(s)
    IN  CASE mode = "Channel" -> Call(s, "OnUpdateChannel", delta)
          [] mode = "Volume" ->
                OnUpdateVolume(Call(s, "OnUpdateVolume", delta), delta, host)
          [] mode = "Panning" -> Call(s, "OnUpdatePanning", delta)
          [] mode = "Pitch" -> Call(s, "OnUpdatePitch", delta)
          [] mode = "Time Marker" -> Call(s, "OnUpdateTimeMarker", delta)
          [] mode = "Red Color" -> Call(s, "OnUpdateColorRed", delta)
          [] mode = "Green Color" -> Call(s, "OnUpdateColorGreen", delta)
          [] mode = "Blue Color" -> Call(s, "OnUpdateColorBlue", delta)
          [] mode = "Plugin Preset" -> Call(s, "OnUpdatePlugin", delta)
          [] mode = "Pattern" ->
                OnUpdatePattern(Call(s, "OnUpdatePattern", delta), delta)
          [] mode = "Playlist Track" ->
                OnUpdatePlaylistTrack(
                    Call(s, "OnUpdatePlaylistTrack", delta), delta)
          [] mode = "Target Mix Track" ->
                OnUpdateTargetMixerTrack(
                    Call(s, "OnUpdateTargetMixerTrack", delta), delta, host)

UpdateValue(s, delta, host) ==
    ModeTurnHandler(Call(s, "NavigationMode.UpdateValue", delta), delta,
                    host)

---------------------------------------------------------------------------
(* Scheduler (controller.scheduler()): delayed tasks that fire once or are *)
(* cancelled once.  A task handle is its position in s.scheduled.          *)

ScheduleTask(s, fn, event) ==
    [s EXCEPT !.scheduled =
        Append(@, [fn |-> fn, event |-> event, state |-> "pending"])]

\* the value CancelTask returns
CancelSucceeds(s, task) ==
    task \in DOMAIN s.scheduled /\ s.scheduled[task].state = "pending"

\* the scheduler after CancelTask
CancelTask(s, task) ==
    IF CancelSucceeds(s, task)
    THEN [s EXCEPT !.scheduled[task].state = "cancelled"]
    ELSE s

---------------------------------------------------------------------------
(* Short-press and long-press functions *)

OnGlobalUndoShortPress(s, event) == Call(s, "FPT_Undo", 0)

OnGlobalUndoLongPress(s, event) ==
    _display_hint(Call(Call(s, "_show_and_focus.widChannelRack", 0),
                       "ui.cut", 0))

\* variant: the left arrow steps forward
OnNavigationLeftShortPress_forward(s, event) ==
    IF s._button_hold_action_committed THEN s ELSE NextMode(s)

OnNavigationLeftShortPress(s, event) ==
    IF s._button_hold_action_committed THEN s ELSE PreviousMode(s)

OnNavigationRightShortPress(s, event) ==
    IF s._button_hold_action_committed THEN s ELSE NextMode(s)

\* variant: the long press commits the hold action
OnNavigationLeftLongPress_commits(s, event) ==
    IF s._button_hold_action_committed THEN s
    ELSE [_display_hint(
              Call(Call(s, "_toggle_visibility.widChannelRack", 0),
                   "lights.SetLights.ID_NAVIGATION_LEFT", 0))
             EXCEPT !._button_hold_action_committed = TRUE]

OnNavigationLeftLongPress(s, event) ==
    IF s._button_hold_action_committed THEN s
    ELSE _display_hint(
             Call(Call(s, "_toggle_visibility.widChannelRack", 0),
                  "lights.SetLights.ID_NAVIGATION_LEFT", 0))

OnNavigationRightLongPress(s, event) ==
    IF s._button_hold_action_committed THEN s
    ELSE _display_hint(
             Call(Call(s, "_toggle_visibility.widMixer", 0),
                  "lights.SetLights.ID_NAVIGATION_RIGHT", 0))

OnLivePart1(s, event) == Call(s, "encoders.ToggleKnobMode", 0)

OnLivePart2(s, event) == Call(s, "encoders.ToggleCurrentMode", 0)

OnBankNextShortPress(s, event) == Call(s, "encoders.NextControlsPage", 0)

OnBankNextLongPress(s, event) == OnLivePart1(s, event)

OnBankPrevShortPress(s, event) == Call(s, "encoders.PrevControlsPage", 0)

OnBankPrevLongPress(s, event) == OnLivePart2(s, event)

\* fn(event) for a short-press or long-press function passed by name; the
\* invocation itself is recorded before the function's body runs
Invoke(fn, s, event) ==
    LET s1 == Call(s, fn, event.controlNum)
    IN  CASE fn = "OnGlobalUndoShortPress" -> OnGlobalUndoShortPress(s1, event)
          [] fn = "OnGlobalUndoLongPress" -> OnGlobalUndoLongPress(s1, event)
          [] fn = "OnNavigationLeftShortPress" ->
                OnNavigationLeftShortPress(s1, event)
          [] fn = "OnNavigationLeftLongPress" ->
                OnNavigationLeftLongPress(s1, event)
          [] fn = "OnNavigationRightShortPress" ->
                OnNavigationRightShortPress(s1, event)
          [] fn = "OnNavigationRightLongPress" ->
                OnNavigationRightLongPress(s1, event)
          [] fn = "OnBankNextShortPress" -> OnBankNextShortPress(s1, event)
          [] fn = "OnBankNextLongPress" -> OnBankNextLongPress(s1, event)
          [] fn = "OnBankPrevShortPress" -> OnBankPrevShortPress(s1, event)
          [] fn = "OnBankPrevLongPress" -> OnBankPrevLongPress(s1, event)

---------------------------------------------------------------------------
(* The long-press detector *)

\* controls whose handler goes through _detect_long_press
LongPressControls ==
    {UndoCtl, LeftCtl, RightCtl, BankNextCtl, BankPrevCtl} \cup (0 .. 7)

\* _long_press_tasks maps a control to its task handle, 0 when it has none
NoTask == 0

\* variant: a release cancels the task but the short-press function is lost
_detect_long_press_drops_short(s, event, short_fn, long_fn) ==
    LET control_id == event.controlNum
    IN  IF _is_pressed(event)
        THEN LET s1 == ScheduleTask(s, long_fn, event)
             IN  [s1 EXCEPT !._long_press_tasks[control_id] =
                                Len(s1.scheduled)]
        ELSE IF s._long_press_tasks[control_id] # NoTask
             THEN CancelTask(s, s._long_press_tasks[control_id])
             ELSE s

\* variant: a release runs the short-press function without looking at
\* what CancelTask returned
_detect_long_press_unchecked(s, event, short_fn, long_fn) ==
    LET control_id == event.controlNum
    IN  IF _is_pressed(event)
        THEN LET s1 == ScheduleTask(s, long_fn, event)
             IN  [s1 EXCEPT !._long_press_tasks[control_id] =
                                Len(s1.scheduled)]
        ELSE IF s._long_press_tasks[control_id] # NoTask
             THEN Invoke(short_fn,
                         CancelTask(s, s._long_press_tasks[control_id]),
                         event)
             ELSE s

\* variant: a release runs the short-press function and leaves the task
\* scheduled
_detect_long_press_no_cancel(s, event, short_fn, long_fn) ==
    LET control_id == event.controlNum
    IN  IF _is_pressed(event)
        THEN LET s1 == ScheduleTask(s, long_fn, event)
             IN  [s1 EXCEPT !._long_press_tasks[control_id] =
                                Len(s1.scheduled)]
        ELSE IF /\ s._long_press_tasks[control_id] # NoTask
                /\ CancelSucceeds(s, s._long_press_tasks[control_id])
             THEN Invoke(short_fn, s, event)
             ELSE s

\* variant: a release of a control that has no task recorded runs the
\* short-press function
_detect_long_press_unrecorded(s, event, short_fn, long_fn) ==
    LET control_id == event.controlNum
    IN  IF _is_pressed(event)
        THEN LET s1 == ScheduleTask(s, long_fn, event)
             IN  [s1 EXCEPT !._long_press_tasks[control_id] =
                                Len(s1.scheduled)]
        ELSE IF s._long_press_tasks[control_id] = NoTask
             THEN Invoke(short_fn, s, event)
             ELSE IF CancelSucceeds(s, s._long_press_tasks[control_id])
             THEN Invoke(short_fn,
                         CancelTask(s, s._long_press_tasks[control_id]),
                         event)
             ELSE s

_detect_long_press(s, event, short_fn, long_fn) ==
    LET control_id == event.controlNum
    IN  IF _is_pressed(event)
        THEN LET s1 == ScheduleTask(s, long_fn, event)
             IN  [s1 EXCEPT !._long_press_tasks[control_id] =
                                Len(s1.scheduled)]
        ELSE IF /\ s._long_press_tasks[control_id] # NoTask
                /\ CancelSucceeds(s, s._long_press_tasks[control_id])
             THEN Invoke(short_fn,
                         CancelTask(s, s._long_press_tasks[control_id]),
                         event)
             ELSE s

---------------------------------------------------------------------------
(* Handlers of the mode buttons *)

BroadcastDown(s, event) ==
    Call(s, "dispatch_message_to_other_scripts.BTN_DOWN", event.controlNum)

BroadcastUp(s, event) ==
    Call(s, "dispatch_message_to_other_scripts.BTN_UP", event.controlNum)

OnTransportsStop(s, event) ==
    IF _is_pressed(event)
    THEN BroadcastDown(
             [s EXCEPT !._button_mode = BitOr(@, STOP_BUTTON_MASK),
                       !._button_hold_action_committed = FALSE],
             event)
    ELSE LET s1 == [s EXCEPT !._button_mode =
                                 BitAndNot(@, STOP_BUTTON_MASK)]
             s2 == IF ~s1._button_hold_action_committed
                   THEN Call(Call(s1, "metronome.Reset", 0),
                             "transport.stop", 0)
                   ELSE s1
         IN  BroadcastUp(s2, event)

_show_and_focus(s, window) == Call(s, "_show_and_focus", window)

OnTransportsPausePlay(s, event, host) ==
    IF _is_pressed(event)
    THEN [s EXCEPT !._button_mode = BitOr(@, PLAY_BUTTON_MASK),
                   !._button_hold_action_committed = FALSE]
    ELSE LET s1 == [s EXCEPT !._button_mode =
                                 BitAndNot(@, PLAY_BUTTON_MASK)]
         IN  IF s1._button_hold_action_committed THEN s1
             ELSE LET s2 == IF host.focusOnPlay
                            THEN _show_and_focus(
                                     s1, IF host.songMode THEN 1 ELSE 2)
                            ELSE s1
                  IN  Call(s2, "FPT_Play", 0)

\* variant: the early return of a committed release comes before the
\* button-up broadcast
OnTransportsRecord_silent_return(s, event) ==
    IF _is_pressed(event)
    THEN BroadcastDown(
             [s EXCEPT !._button_mode = BitOr(@, REC_BUTTON_MASK),
                       !._button_hold_action_committed = FALSE],
             event)
    ELSE LET s1 == [s EXCEPT !._button_mode =
                                 BitAndNot(@, REC_BUTTON_MASK)]
         IN  IF s1._button_hold_action_committed THEN s1
             ELSE IF ~s1._is_pad_recording
                  THEN Call(BroadcastUp(s1, event), "transport.record", 0)
                  ELSE BroadcastUp(s1, event)

OnTransportsRecord(s, event) ==
    IF _is_pressed(event)
    THEN BroadcastDown(
             [s EXCEPT !._button_mode = BitOr(@, REC_BUTTON_MASK),
                       !._button_hold_action_committed = FALSE],
             event)
    ELSE LET s1 == BroadcastUp(
                       [s EXCEPT !._button_mode =
                                     BitAndNot(@, REC_BUTTON_MASK)],
                       event)
         IN  IF s1._button_hold_action_committed THEN s1
             ELSE IF ~s1._is_pad_recording
                  THEN Call(s1, "transport.record", 0)
                  ELSE s1

\* variant: a press does not reset the hold-action-committed flag
OnTransportsLoop_keeps_flag(s, event) ==
    IF _is_pressed(event)
    THEN [s EXCEPT !._button_mode = BitOr(@, LOOP_BUTTON_MASK)]
    ELSE LET s1 == [s EXCEPT !._button_mode =
                                 BitAndNot(@, LOOP_BUTTON_MASK)]
         IN  IF s1._button_hold_action_committed THEN s1
             ELSE Call(s1, "FPT_LoopRecord", 0)

OnTransportsLoop(s, event) ==
    IF _is_pressed(event)
    THEN [s EXCEPT !._button_mode = BitOr(@, LOOP_BUTTON_MASK),
                   !._button_hold_action_committed = FALSE]
    ELSE LET s1 == [s EXCEPT !._button_mode =
                                 BitAndNot(@, LOOP_BUTTON_MASK)]
         IN  IF s1._button_hold_action_committed THEN s1
             ELSE Call(s1, "FPT_LoopRecord", 0)

\* variant: a press of save leaves the updated flag as it was
OnGlobalSave_no_reset(s, event) ==
    IF _is_pressed(event)
    THEN [s EXCEPT !._pattern_mode_down = TRUE]
    ELSE LET s1 == [s EXCEPT !._pattern_mode_down = FALSE]
         IN  IF ~s1._playlist_track_updated
             THEN Call(s1, "transport.setLoopMode", 0)
             ELSE s1

OnGlobalSave(s, event) ==
    IF _is_pressed(event)
    THEN [s EXCEPT !._pattern_mode_down = TRUE,
                   !._playlist_track_updated = FALSE]
    ELSE LET s1 == [s EXCEPT !._pattern_mode_down = FALSE]
         IN  IF ~s1._playlist_track_updated
             THEN Call(s1, "transport.setLoopMode", 0)
             ELSE s1

OnTrackSolo(s, event) ==
    LET playlist_mode == GetMode(s) = "Playlist Track"
    IN  IF s._pattern_mode_down \/ playlist_mode
        THEN LET s1 == Call(Call(s, "playlist.soloTrack",
                                 s._current_playlist_track_index),
                            "playlist.isTrackSolo",
                            s._current_playlist_track_index)
                 s2 == _display_playlist_track_op_hint(s1)
             IN  [s2 EXCEPT !._playlist_track_updated = TRUE]
        ELSE Call(s, "channels.soloChannel", 0)

OnTrackMute(s, event) ==
    LET playlist_mode == GetMode(s) = "Playlist Track"
    IN  IF s._pattern_mode_down \/ playlist_mode
        THEN LET s1 == Call(Call(s, "playlist.muteTrack",
                                 s._current_playlist_track_index),
                            "playlist.isTrackMuted",
                            s._current_playlist_track_index)
                 s2 == _display_playlist_track_op_hint(s1)
             IN  [s2 EXCEPT !._playlist_track_updated = TRUE]
        ELSE Call(s, "channels.muteChannel", 0)

OnTrackRead(s, event) ==
    IF ~s._pattern_mode_down
    THEN LET prev == s.patternNumber - 1
         IN  IF prev <= 0 THEN s
             ELSE _jump_and_sync_select_pattern(s, prev)
    ELSE _change_playlist_track(s, -1)

OnTrackWrite(s, event) ==
    IF ~s._pattern_mode_down
    THEN LET next == s.patternNumber + 1
         IN  IF next > PatternCount THEN s
             ELSE _jump_and_sync_select_pattern(s, next)
    ELSE _change_playlist_track(s, 1)

OnGlobalUndo(s, event) ==
    _detect_long_press(s, event, "OnGlobalUndoShortPress",
                       "OnGlobalUndoLongPress")

OnNavigationLeft(s, event) ==
    IF _is_pressed(event)
    THEN IF BitAnd(s._button_mode, RIGHT_BUTTON_MASK) # 0
         THEN [Call(s, "ui.escape", 0)
                   EXCEPT !._button_hold_action_committed = TRUE]
         ELSE _detect_long_press(
                  [s EXCEPT !._button_mode = BitOr(@, LEFT_BUTTON_MASK),
                            !._button_hold_action_committed = FALSE],
                  event, "OnNavigationLeftShortPress",
                  "OnNavigationLeftLongPress")
    ELSE _detect_long_press(
             [s EXCEPT !._button_mode = BitAndNot(@, LEFT_BUTTON_MASK)],
             event, "OnNavigationLeftShortPress",
             "OnNavigationLeftLongPress")

OnNavigationRight(s, event) ==
    IF _is_pressed(event)
    THEN IF BitAnd(s._button_mode, LEFT_BUTTON_MASK) # 0
         THEN [Call(s, "ui.escape", 0)
                   EXCEPT !._button_hold_action_committed = TRUE]
         ELSE _detect_long_press(
                  [s EXCEPT !._button_mode = BitOr(@, RIGHT_BUTTON_MASK),
                            !._button_hold_action_committed = FALSE],
                  event, "OnNavigationRightShortPress",
                  "OnNavigationRightLongPress")
    ELSE _detect_long_press(
             [s EXCEPT !._button_mode = BitAndNot(@, RIGHT_BUTTON_MASK)],
             event, "OnNavigationRightShortPress",
             "OnNavigationRightLongPress")

OnBankNext(s, event) ==
    _detect_long_press(s, event, "OnBankNextShortPress",
                       "OnBankNextLongPress")

OnBankPrev(s, event) ==
    _detect_long_press(s, event, "OnBankPrevShortPress",
                       "OnBankPrevLongPress")

---------------------------------------------------------------------------
(* Handlers of the encoders *)

\* 2 ** n for n >= 0
RECURSIVE Pow2(_)
Pow2(n) == IF n = 0 THEN 1 ELSE 2 * Pow2(n - 1)

_horizontal_scroll(s, delta, power, host) ==
    LET s1 == Call(s, "_horizontal_scroll", delta)
    IN  IF host.timelineFocused
        THEN Call(s1, "OnUpdateTimeMarker", delta * Pow2(power))
        ELSE Call(s1, "FPT_Jog", delta)

\* variant: the raw control value is forwarded instead of the delta
OnNavigationKnobTurned_raw(s, event, host) ==
    LET delta == event.controlVal
    IN  IF s._pattern_mode_down
        THEN _change_playlist_track(s, delta)
        ELSE IF s._button_mode # 0
        THEN [s EXCEPT !._button_hold_action_committed = TRUE]
        ELSE UpdateValue(s, delta, host)

\* variant: the held button is found by testing its bit in the mask
OnNavigationKnobTurned_bit_test(s, event, host) ==
    LET delta == _get_knob_delta(event)
    IN  IF s._pattern_mode_down
        THEN _change_playlist_track(s, delta)
        ELSE IF s._button_mode # 0
        THEN LET m == s._button_mode
                 s1 == CASE BitAnd(m, LOOP_BUTTON_MASK) # 0 ->
                               Call(Call(s, "FPT_HZoomJog", delta),
                                    "FPT_Jog", 0)
                          [] m = REC_BUTTON_MASK ->
                               _horizontal_scroll(s, delta, 0, host)
                          [] m = PLAY_BUTTON_MASK ->
                               Call(s, "FPT_VZoomJog", delta)
                          [] m = STOP_BUTTON_MASK ->
                               Call(s, "FPT_Jog2", delta)
                          [] m = LEFT_BUTTON_MASK ->
                               Call(s, "ui.selectWindow",
                                    IF delta < 0 THEN 1 ELSE 0)
                          [] m = RIGHT_BUTTON_MASK ->
                               Call(s, "FPT_MixerWindowJog", delta)
                          [] OTHER -> s
             IN  [s1 EXCEPT !._button_hold_action_committed = TRUE]
        ELSE UpdateValue(s, delta, host)

\* variant: the modifier mask is looked at before the save button
OnNavigationKnobTurned_mask_first(s, event, host) ==
    LET delta == _get_knob_delta(event)
    IN  IF s._button_mode # 0
        THEN LET m == s._button_mode
                 s1 == CASE m = LOOP_BUTTON_MASK ->
                               Call(Call(s, "FPT_HZoomJog", delta),
                                    "FPT_Jog", 0)
                          [] m = REC_BUTTON_MASK ->
                               _horizontal_scroll(s, delta, 0, host)
                          [] m = PLAY_BUTTON_MASK ->
                               Call(s, "FPT_VZoomJog", delta)
                          [] m = STOP_BUTTON_MASK ->
                               Call(s, "FPT_Jog2", delta)
                          [] m = LEFT_BUTTON_MASK ->
                               Call(s, "ui.selectWindow",
                                    IF delta < 0 THEN 1 ELSE 0)
                          [] m = RIGHT_BUTTON_MASK ->
                               Call(s, "FPT_MixerWindowJog", delta)
                          [] OTHER -> s
             IN  [s1 EXCEPT !._button_hold_action_committed = TRUE]
        ELSE IF s._pattern_mode_down
        THEN _change_playlist_track(s, delta)
        ELSE UpdateValue(s, delta, host)

OnNavigationKnobTurned(s, event, host) ==
    LET delta == _get_knob_delta(event)
    IN  IF s._pattern_mode_down
        THEN _change_playlist_track(s, delta)
        ELSE IF s._button_mode # 0
        THEN LET m == s._button_mode
                 s1 == CASE m = LOOP_BUTTON_MASK ->
                               Call(Call(s, "FPT_HZoomJog", delta),
                                    "FPT_Jog", 0)
                          [] m = REC_BUTTON_MASK ->
                               _horizontal_scroll(s, delta, 0, host)
                          [] m = PLAY_BUTTON_MASK ->
                               Call(s, "FPT_VZoomJog", delta)
                          [] m = STOP_BUTTON_MASK ->
                               Call(s, "FPT_Jog2", delta)
                          [] m = LEFT_BUTTON_MASK ->
                               Call(s, "ui.selectWindow",
                                    IF delta < 0 THEN 1 ELSE 0)
                          [] m = RIGHT_BUTTON_MASK ->
                               Call(s, "FPT_MixerWindowJog", delta)
                          [] OTHER -> s
             IN  [s1 EXCEPT !._button_hold_action_committed = TRUE]
        ELSE UpdateValue(s, delta, host)

OnPanKnobTurned(s, event, host) ==
    LET idx == event.controlNum - 16
        delta == _get_knob_delta(event)
        s1 == [s EXCEPT !._button_hold_action_committed = TRUE]
    IN  IF s1._button_mode = LOOP_BUTTON_MASK
        THEN IF idx <= 7
             THEN Call(s1, "ui.moveJog", delta * 3 * Pow2(idx))
             ELSE IF idx = 8 THEN Call(s1, "ui.moveJog", delta) ELSE s1
        ELSE IF s1._button_mode = REC_BUTTON_MASK
        THEN IF idx <= 6 THEN _horizontal_scroll(s1, delta, idx, host)
             ELSE s1
        ELSE IF s1._button_mode = 0
        THEN Call(s1, "encoders.ProcessKnobInput", delta)
        ELSE s1

---------------------------------------------------------------------------
(* MidiEventDispatcher and the three routing tables of __init__ *)

\* handler registered for a control number in _midi_command_dispatcher
CommandHandler(c) ==
    CASE c = 91 -> "OnTransportsBack"
      [] c = 92 -> "OnTransportsForward"
      [] c = 93 -> "OnTransportsStop"
      [] c = 94 -> "OnTransportsPausePlay"
      [] c = 95 -> "OnTransportsRecord"
      [] c = 86 -> "OnTransportsLoop"
      [] c = 80 -> "OnGlobalSave"
      [] c = 87 -> "OnGlobalIn"
      [] c = 88 -> "OnGlobalOut"
      [] c = 89 -> "OnGlobalMetro"
      [] c = 81 -> "OnGlobalUndo"
      [] c \in 8 .. 15 -> "OnTrackSolo"
      [] c \in 16 .. 23 -> "OnTrackMute"
      [] c \in 0 .. 7 -> "OnTrackRecord"
      [] c = 74 -> "OnTrackRead"
      [] c = 75 -> "OnTrackWrite"
      [] c = 98 -> "OnNavigationLeft"
      [] c = 99 -> "OnNavigationRight"
      [] c = 84 -> "OnNavigationKnobPressed"
      [] c = 49 -> "OnBankNext"
      [] c = 48 -> "OnBankPrev"
      [] c = 47 -> "OnLivePart1"
      [] c = 46 -> "OnLivePart2"
      [] c \in 24 .. 31 -> "OnBankSelect"
      [] c \in 104 .. 111 -> "OnStartOrEndSliderEvent"
      [] OTHER -> "none"

\* variant: the live-part buttons are registered without the filter
IgnoreRelease_live_unguarded ==
    {87, 88, 89, 74, 75, 84} \cup (8 .. 15) \cup (16 .. 23) \cup (24 .. 31)

\* controls registered with the ignore_release filter
IgnoreRelease ==
    {87, 88, 89, 74, 75, 84, 47, 46} \cup (8 .. 15) \cup (16 .. 23)
    \cup (24 .. 31)

\* handler registered for a control number in _knob_dispatcher
KnobHandler(c) ==
    CASE c \in 16 .. 24 -> "OnPanKnobTurned"
      [] c = 60 -> "OnNavigationKnobTurned"
      [] OTHER -> "none"

\* callback_fn(event) for a handler of the routing tables
RunHandler(fn, s, event, host) ==
    CASE fn = "OnTransportsStop" -> OnTransportsStop(s, event)
      [] fn = "OnTransportsPausePlay" -> OnTransportsPausePlay(s, event, host)
      [] fn = "OnTransportsRecord" -> OnTransportsRecord(s, event)
      [] fn = "OnTransportsLoop" -> OnTransportsLoop(s, event)
      [] fn = "OnGlobalSave" -> OnGlobalSave(s, event)
      [] fn = "OnGlobalUndo" -> OnGlobalUndo(s, event)
      [] fn = "OnTrackSolo" -> OnTrackSolo(s, event)
      [] fn = "OnTrackMute" -> OnTrackMute(s, event)
      [] fn = "OnTrackRead" -> OnTrackRead(s, event)
      [] fn = "OnTrackWrite" -> OnTrackWrite(s, event)
      [] fn = "OnNavigationLeft" -> OnNavigationLeft(s, event)
      [] fn = "OnNavigationRight" -> OnNavigationRight(s, event)
      [] fn = "OnBankNext" -> OnBankNext(s, event)
      [] fn = "OnBankPrev" -> OnBankPrev(s, event)
      [] fn = "OnLivePart1" -> OnLivePart1(s, event)
      [] fn = "OnLivePart2" -> OnLivePart2(s, event)
      [] fn = "OnPanKnobTurned" -> OnPanKnobTurned(s, event, host)
      [] fn = "OnNavigationKnobTurned" ->
            OnNavigationKnobTurned(s, event, host)

\* Dispatch of a keyed dispatcher: the handler registered for the key runs
\* when its filter accepts the event; a handler registered without a filter
\* receives presses and releases alike
Dispatch(fn, filtered, s, event, host) ==
    IF fn = "none" THEN s
    ELSE IF filtered /\ ~_is_pressed(event) THEN s
    ELSE RunHandler(fn, s, event, host)

OnCommandEvent(s, event, host) ==
    Dispatch(CommandHandler(event.controlNum),
             event.controlNum \in IgnoreRelease, s, event, host)

OnKnobEvent(s, event, host) ==
    Dispatch(KnobHandler(event.controlNum), FALSE, s, event, host)

\* variant: the bounce correction starts above 126
OnSliderEvent_above_126(s, event) ==
    LET slider_index == event.status - event.midiId
        slider_value == IF s.SCRIPT_VERSION < 8 /\ event.controlVal > 126
                        THEN 127 ELSE event.controlVal
    IN  Call(Call(s, "encoders.ProcessSliderInput.index", slider_index),
             "encoders.ProcessSliderInput.value", slider_value)

OnSliderEvent(s, event) ==
    LET slider_index == event.status - event.midiId
        slider_value == IF s.SCRIPT_VERSION < 8 /\ event.controlVal >= 126
                        THEN 127 ELSE event.controlVal
    IN  Call(Call(s, "encoders.ProcessSliderInput.index", slider_index),
             "encoders.ProcessSliderInput.value", slider_value)

\* variant: a message class without an entry is routed as a command
ProcessEvent_routes_all(s, event, host) ==
    CASE event.midiId = KnobId -> OnKnobEvent(s, event, host)
      [] event.midiId = SliderId -> OnSliderEvent(s, event)
      [] OTHER -> OnCommandEvent(s, event, host)

ProcessEvent(s, event, host) ==
    CASE event.midiId = CommandId -> OnCommandEvent(s, event, host)
      [] event.midiId = KnobId -> OnKnobEvent(s, event, host)
      [] event.midiId = SliderId -> OnSliderEvent(s, event)
      [] OTHER -> s

\* handler registered for a message class in _midi_id_dispatcher
MidiIdHandler(id) ==
    CASE id = CommandId -> "OnCommandEvent"
      [] id = KnobId -> "OnKnobEvent"
      [] id = SliderId -> "OnSliderEvent"
      [] OTHER -> "none"

\* the value Dispatch returns: true when an entry matched the key and its
\* filter accepted the event, so that the callback was invoked
DispatchReturns(fn, filtered, event) ==
    fn # "none" /\ ~(filtered /\ ~_is_pressed(event))

\* the value ProcessEvent returns: that of the dispatch by message class;
\* OnCommandEvent and OnKnobEvent return nothing of the inner dispatch
ProcessEventReturns(event) ==
    DispatchReturns(MidiIdHandler(event.midiId), FALSE, event)

---------------------------------------------------------------------------
(* The state machine *)

\* the session state as the record the handlers work on
Self ==
    [SCRIPT_VERSION |-> SCRIPT_VERSION,
     _button_mode |-> _button_mode,
     _button_hold_action_committed |-> _button_hold_action_committed,
     _pattern_mode_down |-> _pattern_mode_down,
     _playlist_track_updated |-> _playlist_track_updated,
     _is_pad_recording |-> _is_pad_recording,
     _current_playlist_track_index |-> _current_playlist_track_index,
     _long_press_tasks |-> _long_press_tasks,
     navIndex |-> navIndex,
     scheduled |-> scheduled,
     trackMarked |-> trackMarked,
     patternNumber |-> patternNumber,
     calls |-> <<>>]

\* the state after a handler has returned s
Becomes(s) ==
    /\ SCRIPT_VERSION' = s.SCRIPT_VERSION
    /\ _button_mode' = s._button_mode
    /\ _button_hold_action_committed' = s._button_hold_action_committed
    /\ _pattern_mode_down' = s._pattern_mode_down
    /\ _playlist_track_updated' = s._playlist_track_updated
    /\ _is_pad_recording' = s._is_pad_recording
    /\ _current_playlist_track_index' = s._current_playlist_track_index
    /\ _long_press_tasks' = s._long_press_tasks
    /\ navIndex' = s.navIndex
    /\ scheduled' = s.scheduled
    /\ trackMarked' = s.trackMarked
    /\ patternNumber' = s.patternNumber
    /\ calls' = s.calls

\* __init__, with the host's playlist unmarked and its first pattern current
InitWith(versions) ==
    /\ SCRIPT_VERSION \in versions
    /\ _button_mode = 0
    /\ _button_hold_action_committed = FALSE
    /\ _pattern_mode_down = FALSE
    /\ _playlist_track_updated = FALSE
    /\ _is_pad_recording = FALSE
    /\ _current_playlist_track_index = 1
    /\ _long_press_tasks = [c \in LongPressControls |-> NoTask]
    /\ navIndex = 0
    /\ scheduled = <<>>
    /\ trackMarked = {}
    /\ patternNumber = 1
    /\ calls = <<>>
    /\ lastEvent = [kind |-> "init", midiId |-> 0, status |-> 0,
                    controlNum |-> 0, controlVal |-> 0]
    /\ held = {}
    /\ turnedWhileHeld = {}
    /\ taskRuns = <<>>
    /\ returned = FALSE
    /\ activePage = "main"
    /\ hintExpiresIn = 0
    /\ sinceHint = HintExpires
    /\ arrowTurned = {}
    /\ saveOps = FALSE

ShortPressFns ==
    {"OnGlobalUndoShortPress", "OnNavigationLeftShortPress",
     "OnNavigationRightShortPress", "OnBankNextShortPress",
     "OnBankPrevShortPress"}

LongPressFns ==
    {"OnGlobalUndoLongPress", "OnNavigationLeftLongPress",
     "OnNavigationRightLongPress", "OnBankNextLongPress",
     "OnBankPrevLongPress"}

\* the four buttons whose release has a default action
ModeButtons == {LoopCtl, RecCtl, PlayCtl, StopCtl}

\* the two navigation arrows
ArrowButtons == {LeftCtl, RightCtl}

\* an encoder turn handled as a hold action: a pan knob turn, or a turn of
\* the main encoder while save is up and the modifier mask is not empty
HoldActionTurn(event) ==
    /\ event.midiId = KnobId
    /\ \/ KnobHandler(event.controlNum) = "OnPanKnobTurned"
       \/ /\ KnobHandler(event.controlNum) = "OnNavigationKnobTurned"
          /\ ~_pattern_mode_down
          /\ _button_mode # 0

NumCalls(cs, fns) == Cardinality({i \in DOMAIN cs : cs[i].fn \in fns})

\* taskRuns follows scheduled: a new task has run nothing yet
GrownRuns(s) ==
    [t \in DOMAIN s.scheduled |->
        IF t \in DOMAIN taskRuns THEN taskRuns[t]
        ELSE [long |-> 0, short |-> 0]]

\* The host delivers one MIDI event; the whole dispatch chain runs.
Deliver(event, host) ==
    LET s == ProcessEvent(Self, event, host)
        task == IF event.controlNum \in LongPressControls
                THEN _long_press_tasks[event.controlNum] ELSE NoTask
        isButton == event.midiId = CommandId
    IN  /\ Becomes(s)
        /\ lastEvent' = event
        /\ held' = IF ~isButton THEN held
                   ELSE IF _is_pressed(event)
                        THEN held \cup {event.controlNum}
                        ELSE held \ {event.controlNum}
        /\ returned' = ProcessEventReturns(event)
        /\ turnedWhileHeld' =
               IF isButton /\ _is_pressed(event)
               THEN turnedWhileHeld \ {event.controlNum}
               ELSE IF HoldActionTurn(event)
               THEN turnedWhileHeld \cup (held \cap ModeButtons)
               ELSE turnedWhileHeld

\* taskRuns after delivering a button event: a short-press function that
\* ran is counted for the task the control had recorded
CountShort(event) ==
    LET s == ProcessEvent(Self, event, NoAnswers)
        task == _long_press_tasks[event.controlNum]
    IN  taskRuns' =
            [t \in DOMAIN s.scheduled |->
                IF t = task
                THEN [GrownRuns(s)[t] EXCEPT
                         !.short = @ + NumCalls(s.calls, ShortPressFns)]
                ELSE GrownRuns(s)[t]]

\* A button of the surface goes down.
ButtonPress(c) ==
    /\ c \notin held
    /\ Cardinality(held) < MaxHeld
    /\ c \in LongPressControls => Len(scheduled) < MaxArrowPresses
    /\ Deliver(Event(CommandId, c, PressVal), NoAnswers)
    /\ UNCHANGED <<taskRuns, arrowTurned, saveOps, display>>

\* A held button of the surface comes up.
ButtonRelease(c) ==
    /\ c \in held
    /\ \E host \in HostAnswers :
          /\ c # PlayCtl => host = NoAnswers
          /\ host.volume = NoAnswers.volume
          /\ ~host.focusOnPlay => ~host.songMode
          /\ ~host.timelineFocused
          /\ Deliver(Event(CommandId, c, 0), host)
    /\ UNCHANGED <<taskRuns, arrowTurned, saveOps, display>>

\* the turn reaches OnUpdateVolume, which reads the channel's volume
ReadsVolume ==
    /\ ~_pattern_mode_down
    /\ _button_mode = 0
    /\ GetMode(Self) = "Volume"

\* The main encoder is turned.
NavKnobTurn ==
    \E v \in KnobVals, host \in HostAnswers :
        /\ ~host.songMode /\ ~host.focusOnPlay
        /\ host.timelineFocused => _button_mode = REC_BUTTON_MASK
        /\ ~ReadsVolume => host.volume = NoAnswers.volume
        /\ Deliver(Event(KnobId, NavKnobCtl, v), host)
        /\ UNCHANGED <<taskRuns, arrowTurned, saveOps, display>>

\* One of the pan knobs is turned.
PanKnobTurn ==
    \E c \in PanKnobs, host \in HostAnswers :
        /\ ~host.songMode /\ ~host.focusOnPlay
        /\ host.volume = NoAnswers.volume
        /\ host.timelineFocused => _button_mode = REC_BUTTON_MASK
        /\ Deliver(Event(KnobId, c, 1), host)
        /\ UNCHANGED <<taskRuns, arrowTurned, saveOps, display>>

\* the scheduler runs the callback of task t
RunTask(s, t) ==
    Invoke(s.scheduled[t].fn, [s EXCEPT !.scheduled[t].state = "fired"],
           s.scheduled[t].event)

\* The scheduler's timer elapses for a pending task: its callback runs.
Fires(t) ==
    /\ t \in DOMAIN scheduled
    /\ scheduled[t].state = "pending"
    /\ Becomes(RunTask(Self, t))
    /\ lastEvent' = [kind |-> "timer", midiId |-> 0, status |-> 0,
                     controlNum |-> scheduled[t].event.controlNum,
                     controlVal |-> t]
    /\ returned' = FALSE
    /\ UNCHANGED <<held, turnedWhileHeld>>

TimerFires(t) == Fires(t) /\ UNCHANGED <<taskRuns, arrowTurned, saveOps, display>>

\* buttons of the surface pressed in the button specification
SurfaceButtons ==
    {LoopCtl, RecCtl, PlayCtl, StopCtl, LeftCtl, RightCtl}

Next ==
    \/ \E c \in SurfaceButtons : ButtonPress(c)
    \/ \E c \in SurfaceButtons : ButtonRelease(c)
    \/ NavKnobTurn
    \/ PanKnobTurn
    \/ \E t \in 1 .. MaxArrowPresses : TimerFires(t)

Init == InitWith({20})

Spec == Init /\ [][Next]_vars

---------------------------------------------------------------------------
(* The long-press detector under an arbitrary stream of presses, releases *)
(* and timer firings: events of one control need not alternate.           *)

\* controls pressed in the long-press specification
LongPressTried == {UndoCtl, LeftCtl, BankNextCtl}

RawPress(c) ==
    /\ Len(scheduled) < MaxTasks
    /\ Deliver(Event(CommandId, c, PressVal), NoAnswers)
    /\ CountShort(Event(CommandId, c, PressVal))
    /\ UNCHANGED <<arrowTurned, saveOps, display>>

RawRelease(c) ==
    /\ Deliver(Event(CommandId, c, 0), NoAnswers)
    /\ CountShort(Event(CommandId, c, 0))
    /\ UNCHANGED <<arrowTurned, saveOps, display>>

TimerFiresCounted(t) ==
    /\ Fires(t)
    /\ taskRuns' = [GrownRuns(RunTask(Self, t)) EXCEPT
                       ![t].long = @ + NumCalls(RunTask(Self, t).calls,
                                                LongPressFns)]
    /\ UNCHANGED <<arrowTurned, saveOps, display>>

NextLongPress ==
    \/ \E c \in LongPressTried : RawPress(c)
    \/ \E c \in LongPressTried : RawRelease(c)
    \/ \E t \in 1 .. MaxTasks : TimerFiresCounted(t)

SpecLongPress == InitWith({20}) /\ [][NextLongPress]_vars

---------------------------------------------------------------------------
(* The decoder applied to every control value of the main encoder *)

\* sliders moved: the first and the last of sliders 1-9, told apart by the
\* channel added to the status byte
SliderIndexes == {0, 8}

SliderEvent(index, v) == [Event(SliderId, 0, v) EXCEPT !.status = @ + index]

\* A slider is moved.
SliderMove ==
    \E i \in SliderIndexes, v \in 0 .. MaxControlVal :
        /\ Deliver(SliderEvent(i, v), NoAnswers)
        /\ UNCHANGED <<taskRuns, arrowTurned, saveOps, display>>

NextDecoder ==
    \/ \E v \in 0 .. MaxControlVal :
          /\ Deliver(Event(KnobId, NavKnobCtl, v), NoAnswers)
          /\ UNCHANGED <<taskRuns, arrowTurned, saveOps, display>>
    \/ SliderMove

SpecDecoder == InitWith(Versions) /\ [][NextDecoder]_vars

---------------------------------------------------------------------------
(* The navigation cursor under arrow presses, from any active mode *)

\* number of arrow presses in one run of the navigation specification
MaxNavPresses == 2

InitNavigation ==
    \E i \in 0 .. 11 :
        /\ InitWith(Versions)
        /\ i < Len(NavModes(SCRIPT_VERSION))
        /\ navIndex = i

ArrowPress(c) ==
    /\ c \notin held
    /\ Len(scheduled) < MaxNavPresses
    /\ Deliver(Event(CommandId, c, PressVal), NoAnswers)
    /\ UNCHANGED <<taskRuns, arrowTurned, saveOps, display>>

ArrowRelease(c) ==
    /\ c \in held
    /\ Deliver(Event(CommandId, c, 0), NoAnswers)
    /\ UNCHANGED <<taskRuns, arrowTurned, saveOps, display>>

NextNavigation ==
    \/ \E c \in {LeftCtl, RightCtl} : ArrowPress(c)
    \/ \E c \in {LeftCtl, RightCtl} : ArrowRelease(c)
    \/ \E t \in 1 .. MaxNavPresses : TimerFires(t)

SpecNavigation == InitNavigation /\ [][NextNavigation]_vars

---------------------------------------------------------------------------
(* Properties of the long-press detector *)

IsRelease(e, c) ==
    e.kind = "midi" /\ e.midiId = CommandId /\ e.controlNum = c
    /\ e.controlVal = 0

IsPress(e, c) ==
    e.kind = "midi" /\ e.midiId = CommandId /\ e.controlNum = c
    /\ e.controlVal # 0

IsTimer(e, t) == e.kind = "timer" /\ e.controlVal = t

\* the task recorded for control c is still pending
PendingFor(c) ==
    /\ _long_press_tasks[c] # NoTask
    /\ scheduled[_long_press_tasks[c]].state = "pending"

\* the task recorded for control c has fired
FiredFor(c) ==
    /\ _long_press_tasks[c] # NoTask
    /\ scheduled[_long_press_tasks[c]].state = "fired"

\* C1: a release that reaches _detect_long_press while the task of the
\* control's last press is still pending runs a short-press function
\* exactly once and no long-press function, and leaves that task cancelled;
\* a cancelled task has run its short-press function once and never runs
\* its long-press function.
C1_ShortPressOnEarlyRelease ==
    /\ [][\A c \in LongPressControls :
            (PendingFor(c) /\ IsRelease(lastEvent', c)) =>
                /\ NumCalls(calls', ShortPressFns) = 1
                /\ NumCalls(calls', LongPressFns) = 0
                /\ scheduled'[_long_press_tasks[c]].state = "cancelled"]_vars
    /\ [](\A t \in DOMAIN scheduled :
            scheduled[t].state = "cancelled" =>
                taskRuns[t].short = 1 /\ taskRuns[t].long = 0)

C1_Witness ==
    \E c \in LongPressTried :
        /\ IsRelease(lastEvent, c)
        /\ _long_press_tasks[c] # NoTask
        /\ scheduled[_long_press_tasks[c]].state = "cancelled"
        /\ taskRuns[_long_press_tasks[c]].short = 1
        /\ NumCalls(calls, ShortPressFns) = 1

\* C2: when the timer of a pending task elapses its long-press function
\* runs exactly once, and a later release of the control, the fired task
\* still being the one recorded for it, runs no short-press function.
C2_LongPressOnTimer ==
    /\ [][\A t \in DOMAIN scheduled :
            (scheduled[t].state = "pending" /\ IsTimer(lastEvent', t)) =>
                /\ NumCalls(calls', {scheduled[t].fn}) = 1
                /\ NumCalls(calls', LongPressFns) = 1
                /\ scheduled'[t].state = "fired"]_vars
    /\ [][\A c \in LongPressControls :
            (FiredFor(c) /\ IsRelease(lastEvent', c)) =>
                NumCalls(calls', ShortPressFns) = 0]_vars
    /\ [](\A t \in DOMAIN scheduled :
            scheduled[t].state = "fired" =>
                taskRuns[t].long = 1 /\ taskRuns[t].short = 0)

C2_Witness ==
    \E c \in LongPressTried :
        /\ IsRelease(lastEvent, c)
        /\ FiredFor(c)
        /\ taskRuns[_long_press_tasks[c]].long = 1
        /\ calls = <<>>

\* C3: every scheduled task is resolved at most once: it runs its
\* long-press function or gives rise to its short-press function, never
\* both and never twice, and once it has fired or been cancelled neither
\* its state nor its runs change again.
C3_ResolvedAtMostOnce ==
    /\ [](\A t \in DOMAIN scheduled :
            /\ taskRuns[t].long + taskRuns[t].short <= 1
            /\ scheduled[t].state = "pending" =>
                   taskRuns[t].long + taskRuns[t].short = 0
            /\ scheduled[t].state = "cancelled" => taskRuns[t].long = 0)
    /\ [][\A t \in DOMAIN scheduled :
            scheduled[t].state # "pending" =>
                scheduled'[t] = scheduled[t] /\ taskRuns'[t] = taskRuns[t]]_vars

\* a release repeated after a successful cancellation, another task having
\* fired in the same run
C3_Witness ==
    /\ \E c \in LongPressTried :
          /\ IsRelease(lastEvent, c)
          /\ _long_press_tasks[c] # NoTask
          /\ scheduled[_long_press_tasks[c]].state = "cancelled"
          /\ calls = <<>>
    /\ \E t \in DOMAIN scheduled : scheduled[t].state = "fired"

\* the tasks of control c that have neither fired nor been cancelled
PendingTasksOf(c) ==
    {t \in DOMAIN scheduled :
        scheduled[t].state = "pending" /\ scheduled[t].event.controlNum = c}

\* C4: at every moment at most one long-press task is pending per control:
\* a new press invalidates the earlier task of the control.
C4_OnePendingPerControl ==
    \A c \in LongPressControls : Cardinality(PendingTasksOf(c)) <= 1

---------------------------------------------------------------------------
(* The buttons together with the save button *)

\* the save button, three mode buttons (play is exercised with the other
\* mode buttons under Spec) and the left arrow, whose mask overlaps theirs
SaveSpecButtons == {LoopCtl, RecCtl, StopCtl, SaveCtl, LeftCtl}

NextSave ==
    \/ \E c \in SaveSpecButtons : ButtonPress(c)
    \/ \E c \in SaveSpecButtons : ButtonRelease(c)
    \/ NavKnobTurn
    \/ \E t \in 1 .. MaxArrowPresses : TimerFires(t)

SpecSave == Init /\ [][NextSave]_vars

---------------------------------------------------------------------------
(* Properties of the modifier mask *)

IsNavTurn(e) ==
    e.kind = "midi" /\ e.midiId = KnobId /\ e.controlNum = NavKnobCtl

\* the default release action of a mode button
DefaultCommand(b) ==
    CASE b = LoopCtl -> "FPT_LoopRecord"
      [] b = RecCtl -> "transport.record"
      [] b = PlayCtl -> "FPT_Play"
      [] b = StopCtl -> "transport.stop"

\* the command the main encoder is remapped to while a mode button is held
RemappedCommand(b) ==
    CASE b = LoopCtl -> "FPT_HZoomJog"
      [] b = RecCtl -> "_horizontal_scroll"
      [] b = PlayCtl -> "FPT_VZoomJog"
      [] b = StopCtl -> "FPT_Jog2"

\* C5: on the release of the loop, record, play or stop button its default
\* release action is performed if and only if no encoder turn was handled
\* as a hold action while the button was held (no pad recording).
C5_DefaultIffNoHoldAction ==
    \A b \in ModeButtons :
        (IsRelease(lastEvent, b) /\ ~_is_pad_recording) =>
            (Called(calls, DefaultCommand(b)) <=> b \notin turnedWhileHeld)

\* C6: a loop press that leaves the mask holding the loop bit only (the
\* mask was empty before it), directly followed by the loop release,
\* leaves the mask empty and toggles loop recording exactly once.
C6_LoopTapFromEmptyMask ==
    [][(/\ IsPress(lastEvent, LoopCtl)
        /\ _button_mode = LOOP_BUTTON_MASK
        /\ IsRelease(lastEvent', LoopCtl)) =>
           /\ _button_mode' = 0
           /\ NumCalls(calls', {"FPT_LoopRecord"}) = 1]_vars

C6_Witness ==
    /\ IsRelease(lastEvent, LoopCtl)
    /\ held = {}
    /\ _button_mode = 0
    /\ NumCalls(calls, {"FPT_LoopRecord"}) = 1

\* C7 as stated: whenever the modifier mask is zero, a turn of the main
\* encoder is forwarded to the navigation turn-handler with the decoded
\* delta.
C7_ZeroMaskTurnGoesToNavigation ==
    (IsNavTurn(lastEvent) /\ _button_mode = 0) =>
        /\ NumCalls(calls, {"NavigationMode.UpdateValue"}) = 1
        /\ CalledWith(calls, "NavigationMode.UpdateValue",
                      IF lastEvent.controlVal < 64 THEN lastEvent.controlVal
                      ELSE 64 - lastEvent.controlVal)

\* C7 amended: whenever the modifier mask is zero and the save button is
\* not down, a turn of the main encoder is forwarded to the navigation
\* turn-handler with the decoded delta.
C7_ZeroMaskNoSaveTurnGoesToNavigation ==
    (IsNavTurn(lastEvent) /\ _button_mode = 0 /\ ~_pattern_mode_down) =>
        /\ NumCalls(calls, {"NavigationMode.UpdateValue"}) = 1
        /\ CalledWith(calls, "NavigationMode.UpdateValue",
                      IF lastEvent.controlVal < 64 THEN lastEvent.controlVal
                      ELSE 64 - lastEvent.controlVal)

C7_Witness ==
    /\ IsNavTurn(lastEvent)
    /\ lastEvent.controlVal = 65
    /\ _button_mode = 0
    /\ ~_pattern_mode_down
    /\ CalledWith(calls, "NavigationMode.UpdateValue", -1)

\* C8: while exactly one of the loop, record, play and stop buttons is
\* held and no other button is, a turn of the main encoder invokes that
\* button's remapped command and not the navigation turn-handler.
C8_HeldButtonRemapsEncoder ==
    \A b \in ModeButtons :
        (IsNavTurn(lastEvent) /\ held = {b}) =>
            /\ Called(calls, RemappedCommand(b))
            /\ ~Called(calls, "NavigationMode.UpdateValue")

---------------------------------------------------------------------------
(* Properties of the decoder and of the navigation cursor *)

\* C9: the delta the main encoder's handler decodes from control value v
\* is v for v in 0..63, 64 - v for v in 65..127 and 0 for v = 64.
C9_DecodedDelta ==
    IsNavTurn(lastEvent) =>
        LET v == lastEvent.controlVal
        IN  /\ Len(calls) >= 1
            /\ calls[1].fn = "NavigationMode.UpdateValue"
            /\ v \in 0 .. 63 => calls[1].arg = v
            /\ v \in 65 .. 127 => calls[1].arg = 64 - v
            /\ v = 64 => calls[1].arg = 0

C9_Witness ==
    /\ IsNavTurn(lastEvent)
    /\ lastEvent.controlVal = 127
    /\ calls[1].arg = -63

\* the number of modes __init__ adds: Pitch only from host version 8 on
ModeCount == IF SCRIPT_VERSION >= 8 THEN 12 ELSE 11

\* C10: NextMode moves the cursor from i to (i+1) mod n and PreviousMode
\* to (i-1) mod n, wrapping between the first and the last mode; the left
\* arrow's short press steps backward and the right arrow's forward unless
\* a hold action was committed; the cursor stays within 0..n-1 and does
\* not move otherwise.
C10_CyclicModeSelection ==
    /\ [](navIndex \in 0 .. (ModeCount - 1))
    /\ [][/\ Called(calls', "NavigationMode.NextMode") =>
                /\ navIndex' = (navIndex + 1) % ModeCount
                /\ navIndex = ModeCount - 1 => navIndex' = 0
          /\ Called(calls', "NavigationMode.PreviousMode") =>
                /\ navIndex' = (navIndex - 1) % ModeCount
                /\ navIndex = 0 => navIndex' = ModeCount - 1
          /\ (/\ PendingFor(LeftCtl) /\ IsRelease(lastEvent', LeftCtl)
              /\ ~_button_hold_action_committed) =>
                navIndex' = (navIndex - 1) % ModeCount
          /\ (/\ PendingFor(RightCtl) /\ IsRelease(lastEvent', RightCtl)
              /\ ~_button_hold_action_committed) =>
                navIndex' = (navIndex + 1) % ModeCount
          /\ (/\ ~Called(calls', "NavigationMode.NextMode")
              /\ ~Called(calls', "NavigationMode.PreviousMode")) =>
                navIndex' = navIndex]_vars

\* the left arrow's short press has wrapped from the first mode to the last
C10_Witness ==
    /\ IsRelease(lastEvent, LeftCtl)
    /\ Called(calls, "NavigationMode.PreviousMode")
    /\ navIndex = ModeCount - 1
    /\ Len(scheduled) = 1

---------------------------------------------------------------------------
(* Routing of arbitrary events: any message class, registered and          *)
(* unregistered control numbers, presses and releases in any order, and    *)
(* the pad-recording notification of the pads                              *)

\* message classes delivered: the three with an entry and one without
ClassesTried == {128, CommandId, KnobId, SliderId}
\* control numbers delivered: 60 and 100 have no entry as commands, only
\* 60 has one as a knob; 47 is registered with the ignore_release filter
ControlsTried == {StopCtl, RecCtl, NavKnobCtl, LivePart1Ctl, 100}
\* control values delivered
ValuesTried == {0, 1, PressVal}

\* The host delivers an event of any class.
DeliverRaw(midiId, controlNum, controlVal) ==
    /\ Deliver(Event(midiId, controlNum, controlVal), NoAnswers)
    /\ UNCHANGED <<taskRuns, arrowTurned, saveOps, display>>

\* The pads report that pad recording has started or stopped.
NotifyPadRecordingState(is_recording) ==
    /\ _is_pad_recording' = is_recording
    /\ calls' = <<>>
    /\ lastEvent' = [kind |-> "notify", midiId |-> 0, status |-> 0,
                     controlNum |-> 0, controlVal |-> 0]
    /\ returned' = FALSE
    /\ UNCHANGED <<SCRIPT_VERSION, _button_mode,
                   _button_hold_action_committed, _pattern_mode_down,
                   _playlist_track_updated, _current_playlist_track_index,
                   _long_press_tasks, navIndex, scheduled, trackMarked,
                   patternNumber, held, turnedWhileHeld, taskRuns,
                   activePage, hintExpiresIn, sinceHint, arrowTurned, saveOps>>

NextRouting ==
    \/ \E m \in ClassesTried, c \in ControlsTried, v \in ValuesTried :
          DeliverRaw(m, c, v)
    \/ \E b \in BOOLEAN : NotifyPadRecordingState(b)

SpecRouting == Init /\ [][NextRouting]_vars

\* the event finds no control handler: its message class has no entry, or
\* its control number has none in the table of its class
Unrouted(e) ==
    /\ e.kind = "midi"
    /\ \/ MidiIdHandler(e.midiId) = "none"
       \/ e.midiId = CommandId /\ CommandHandler(e.controlNum) = "none"
       \/ e.midiId = KnobId /\ KnobHandler(e.controlNum) = "none"

\* C11: an event whose message class is not command, knob or slider, or
\* whose control number has no entry in the command or knob table, invokes
\* no handler (no call is made) and leaves the modifier mask, the
\* hold-committed flag, the save-held flag, the long-press registry, the
\* active navigation mode and the playlist track index unchanged.
C11_UnroutedEventChangesNothing ==
    [][Unrouted(lastEvent') =>
          /\ calls' = <<>>
          /\ UNCHANGED <<_button_mode, _button_hold_action_committed,
                         _pattern_mode_down, _long_press_tasks, navIndex,
                         _current_playlist_track_index, scheduled,
                         _is_pad_recording>>]_vars

\* an unregistered command arrives while a button is held and a hold
\* action is committed
C11_Witness ==
    /\ Unrouted(lastEvent)
    /\ lastEvent.midiId = CommandId
    /\ _button_mode # 0
    /\ _button_hold_action_committed
    /\ calls = <<>>

\* C12: ProcessEvent returns false for every event that finds no control
\* handler, an unregistered control number inside a known message class
\* included.
C12_UnroutedIsUnhandled ==
    Unrouted(lastEvent) => ~returned

\* C13: every press of the record or stop button makes exactly one
\* button-down broadcast and no button-up broadcast, every release exactly
\* one button-up broadcast and no button-down broadcast, each carrying the
\* event's control number, whatever the hold-committed flag and the
\* pad-recording state.
C13_PressAndReleaseBroadcast ==
    \A b \in {RecCtl, StopCtl} :
        /\ IsPress(lastEvent, b) =>
              /\ NumCalls(calls,
                     {"dispatch_message_to_other_scripts.BTN_DOWN"}) = 1
              /\ CalledWith(calls,
                     "dispatch_message_to_other_scripts.BTN_DOWN", b)
              /\ ~Called(calls, "dispatch_message_to_other_scripts.BTN_UP")
        /\ IsRelease(lastEvent, b) =>
              /\ NumCalls(calls,
                     {"dispatch_message_to_other_scripts.BTN_UP"}) = 1
              /\ CalledWith(calls,
                     "dispatch_message_to_other_scripts.BTN_UP", b)
              /\ ~Called(calls, "dispatch_message_to_other_scripts.BTN_DOWN")

\* a record release during pad recording, a hold action being committed
C13_Witness ==
    /\ IsRelease(lastEvent, RecCtl)
    /\ _button_hold_action_committed
    /\ _is_pad_recording
    /\ calls = <<[fn |-> "dispatch_message_to_other_scripts.BTN_UP",
                  arg |-> RecCtl]>>

---------------------------------------------------------------------------
(* Properties of the slider correction *)

IsSlider(e) == e.kind = "midi" /\ e.midiId = SliderId

\* C14: for a slider event with value v the value forwarded to
\* ProcessSliderInput is 127 if the host version is below 8 and v >= 126,
\* and v in every other case; the index forwarded is the status byte minus
\* the message-class id.
C14_SliderValueForwarded ==
    IsSlider(lastEvent) =>
        LET v == lastEvent.controlVal
        IN  /\ Len(calls) = 2
            /\ calls[1] = [fn |-> "encoders.ProcessSliderInput.index",
                           arg |-> lastEvent.status - SliderId]
            /\ calls[2].fn = "encoders.ProcessSliderInput.value"
            /\ (SCRIPT_VERSION < 8 /\ v >= 126) => calls[2].arg = 127
            /\ ~(SCRIPT_VERSION < 8 /\ v >= 126) => calls[2].arg = v

\* slider 9 at 126 on a host before version 8
C14_Witness ==
    /\ IsSlider(lastEvent)
    /\ SCRIPT_VERSION < 8
    /\ lastEvent.controlVal = 126
    /\ calls[1].arg = 8
    /\ calls[2].arg = 127

---------------------------------------------------------------------------
(* The Volume mode: the right arrow selects it, the main encoder turns it *)

\* control values of the main encoder: deltas 5, 0 and -59
TurnVals == {5, 64, 123}
\* every volume of the channel, in hundredths of full scale
VolumeRange == 0 .. 100

\* The main encoder is turned, the channel being at any volume.
VolumeTurn ==
    \E v \in TurnVals, vol \in VolumeRange :
        /\ ~ReadsVolume => vol = NoAnswers.volume
        /\ Deliver(Event(KnobId, NavKnobCtl, v),
                   [NoAnswers EXCEPT !.volume = vol])
        /\ UNCHANGED <<taskRuns, arrowTurned, saveOps, display>>

\* number of right-arrow presses in one run of the volume specification
MaxModeSteps == 1

\* The right arrow goes down.
ModeStepPress ==
    /\ RightCtl \notin held
    /\ Len(scheduled) < MaxModeSteps
    /\ Deliver(Event(CommandId, RightCtl, PressVal), NoAnswers)
    /\ UNCHANGED <<taskRuns, arrowTurned, saveOps, display>>

NextVolume ==
    \/ ModeStepPress
    \/ ArrowRelease(RightCtl)
    \/ \E t \in 1 .. MaxModeSteps : TimerFires(t)
    \/ VolumeTurn

SpecVolume == Init /\ [][NextVolume]_vars

---------------------------------------------------------------------------
(* The hint page: long presses of the arrows show it, the display's timer  *)
(* lets it expire                                                          *)

\* time that passes between two refreshes of the display, in ms
TickMs == 500

\* The display is refreshed after TickMs: a hint whose expiry has elapsed
\* gives way to the persistent page.
Tick ==
    /\ hintExpiresIn > 0
    /\ hintExpiresIn' = IF hintExpiresIn > TickMs
                        THEN hintExpiresIn - TickMs ELSE 0
    /\ activePage' = IF hintExpiresIn > TickMs THEN activePage ELSE "main"
    /\ sinceHint' = IF sinceHint + TickMs < HintExpires
                    THEN sinceHint + TickMs ELSE HintExpires
    /\ calls' = <<>>
    /\ lastEvent' = [kind |-> "tick", midiId |-> 0, status |-> 0,
                     controlNum |-> 0, controlVal |-> 0]
    /\ returned' = FALSE
    /\ UNCHANGED <<SCRIPT_VERSION, _button_mode,
                   _button_hold_action_committed, _pattern_mode_down,
                   _playlist_track_updated, _is_pad_recording,
                   _current_playlist_track_index, _long_press_tasks,
                   navIndex, scheduled, trackMarked, patternNumber, held,
                   turnedWhileHeld, taskRuns, arrowTurned, saveOps>>

\* the paged display after the calls cs of one step: SetActivePage makes
\* the hint page the active one and its expiry replaces the pending one
DisplayAfter(cs) ==
    LET shown == Calls(cs, "paged_display.SetActivePage.hint")
        last == CHOOSE i \in shown : \A j \in shown : j <= i
    IN  /\ activePage' = IF shown = {} THEN activePage ELSE "hint"
        /\ hintExpiresIn' = IF shown = {} THEN hintExpiresIn
                            ELSE cs[last].arg
        /\ sinceHint' = IF Called(cs, "paged_display.SetPageLines.hint")
                        THEN 0 ELSE sinceHint

HintArrowPress(c) ==
    /\ c \notin held
    /\ Len(scheduled) < MaxNavPresses
    /\ Deliver(Event(CommandId, c, PressVal), NoAnswers)
    /\ DisplayAfter(calls')
    /\ UNCHANGED <<taskRuns, arrowTurned, saveOps>>

HintArrowRelease(c) ==
    /\ c \in held
    /\ Deliver(Event(CommandId, c, 0), NoAnswers)
    /\ DisplayAfter(calls')
    /\ UNCHANGED <<taskRuns, arrowTurned, saveOps>>

HintTimerFires(t) ==
    /\ Fires(t)
    /\ DisplayAfter(calls')
    /\ UNCHANGED <<taskRuns, arrowTurned, saveOps>>

NextHint ==
    \/ \E c \in ArrowButtons : HintArrowPress(c)
    \/ \E c \in ArrowButtons : HintArrowRelease(c)
    \/ \E t \in 1 .. MaxNavPresses : HintTimerFires(t)
    \/ Tick

\* the host keeps refreshing the display, so a pending expiry elapses
SpecHint == Init /\ [][NextHint]_vars /\ WF_vars(Tick)

HintShown(cs) == Called(cs, "paged_display.SetPageLines.hint")

\* C16: once a hint is shown the display eventually shows the persistent
\* page again (the number of hints of a run being bounded); the hint page
\* is shown exactly while less than 1500 ms have passed since the latest
\* hint; and every hint, shown over a pending one or not, leaves one
\* expiry pending, 1500 ms from that hint.
C16_HintExpires ==
    /\ (activePage = "hint") ~> (activePage = "main")
    /\ [](activePage = "hint" <=> sinceHint < HintExpires)
    /\ [](activePage = "hint" <=> hintExpiresIn > 0)
    /\ [][HintShown(calls') =>
             activePage' = "hint" /\ hintExpiresIn' = HintExpires]_vars

\* a second hint has replaced a hint that had 500 ms left, and has itself
\* been showing for 1000 ms
C16_ReplacedWitness ==
    /\ activePage = "hint"
    /\ \A t \in 1 .. 2 : t \in DOMAIN scheduled /\ scheduled[t].state = "fired"
    /\ hintExpiresIn = HintExpires - 2 * TickMs
    /\ sinceHint = 2 * TickMs

---------------------------------------------------------------------------
(* Properties of the modifier mask and of the hold-committed flag under    *)
(* alternating presses and releases                                        *)

\* the mask value a button sets on press
ButtonMask(c) ==
    CASE c = LoopCtl -> LOOP_BUTTON_MASK
      [] c = RecCtl -> REC_BUTTON_MASK
      [] c = PlayCtl -> PLAY_BUTTON_MASK
      [] c = StopCtl -> STOP_BUTTON_MASK
      [] c = LeftCtl -> LEFT_BUTTON_MASK
      [] c = RightCtl -> RIGHT_BUTTON_MASK

\* the command the main encoder is remapped to while button c is held
HoldCommand(c) ==
    CASE c \in ModeButtons -> RemappedCommand(c)
      [] c = LeftCtl -> "ui.selectWindow"
      [] c = RightCtl -> "FPT_MixerWindowJog"

\* C17: each button alternating press and release, the bit of the loop,
\* record, play and stop button is set in the modifier mask if and only if
\* the button is held.
C17_MaskBitIffHeld ==
    \A b \in ModeButtons :
        BitAnd(_button_mode, ButtonMask(b)) # 0 <=> b \in held

\* C18: on a main-encoder turn received while save is not held and the
\* mask is not zero, button X's remapped command is invoked if and only if
\* the mask equals X's mask value, so at most one is; the navigation
\* turn-handler is not invoked and the hold-committed flag is set.
C18_RemapByMaskEquality ==
    [][(/\ IsNavTurn(lastEvent')
        /\ ~_pattern_mode_down
        /\ _button_mode # 0) =>
          /\ \A x \in SurfaceButtons :
                Called(calls', HoldCommand(x)) <=>
                    _button_mode = ButtonMask(x)
          /\ Cardinality({x \in SurfaceButtons :
                             Called(calls', HoldCommand(x))}) <= 1
          /\ ~Called(calls', "NavigationMode.UpdateValue")
          /\ _button_hold_action_committed']_vars

\* a turn with loop and stop held: no command, the flag set
C18_Witness ==
    /\ IsNavTurn(lastEvent)
    /\ held = {LoopCtl, StopCtl}
    /\ _button_mode = LOOP_BUTTON_MASK + STOP_BUTTON_MASK
    /\ calls = <<>>
    /\ _button_hold_action_committed

\* the window toggles of the arrows' long presses
WindowToggles ==
    {"_toggle_visibility.widChannelRack", "_toggle_visibility.widMixer"}

\* buttons pressed in the arrow-hold specification
ArrowHoldButtons == {LeftCtl, RightCtl, LoopCtl}

\* An event is delivered and arrowTurned follows it: a press starts a new
\* hold of its button, a main-encoder turn handled as a hold action marks
\* the arrows that are held.
DeliverTracked(event, host) ==
    /\ Deliver(event, host)
    /\ arrowTurned' =
           IF event.midiId = CommandId /\ _is_pressed(event)
           THEN arrowTurned \ {event.controlNum}
           ELSE IF event.controlNum = NavKnobCtl /\ HoldActionTurn(event)
           THEN arrowTurned \cup (held \cap ArrowButtons)
           ELSE arrowTurned
    /\ UNCHANGED <<taskRuns, saveOps, display>>

HoldPress(c) ==
    /\ c \notin held
    /\ Cardinality(held) < MaxHeld
    /\ c \in LongPressControls => Len(scheduled) < MaxArrowPresses
    /\ DeliverTracked(Event(CommandId, c, PressVal), NoAnswers)

HoldRelease(c) ==
    /\ c \in held
    /\ DeliverTracked(Event(CommandId, c, 0), NoAnswers)

HoldTurn ==
    \E v \in KnobVals : DeliverTracked(Event(KnobId, NavKnobCtl, v), NoAnswers)

NextArrowHold ==
    \/ \E c \in ArrowHoldButtons : HoldPress(c)
    \/ \E c \in ArrowHoldButtons : HoldRelease(c)
    \/ HoldTurn
    \/ \E t \in 1 .. MaxArrowPresses : TimerFires(t)

SpecArrowHold == Init /\ [][NextArrowHold]_vars

\* C19: once the main encoder was turned as a hold action while an arrow
\* was held, that press of the arrow performs neither the mode switch of
\* its short press at the release nor the window toggle of its long press
\* when its timer fires.
C19_TurnedArrowDoesNothing ==
    \A a \in ArrowButtons :
        /\ (IsRelease(lastEvent, a) /\ a \in arrowTurned) =>
              /\ ~Called(calls, "NavigationMode.NextMode")
              /\ ~Called(calls, "NavigationMode.PreviousMode")
        /\ (/\ lastEvent.kind = "timer"
            /\ lastEvent.controlNum = a
            /\ lastEvent.controlVal = _long_press_tasks[a]
            /\ a \in arrowTurned) =>
              \A w \in WindowToggles : ~Called(calls, w)

\* C20 as stated: the firing of a long-press task sets the hold-committed
\* flag, and the flag is true at the release of the control that follows
\* the firing.
C20_FiringCommits ==
    /\ [][lastEvent'.kind = "timer" =>
             _button_hold_action_committed']_vars
    /\ [](\A c \in ArrowButtons :
            (IsRelease(lastEvent, c) /\ FiredFor(c)) =>
                _button_hold_action_committed)

\* C20 amended: the firing of a long-press task marks the task as fired
\* and leaves the hold-committed flag as it was; at the release of the
\* control that follows, the task still being the one recorded for the
\* control, no short-press function runs and the mode is not switched.
C20_FiringMarksTask ==
    /\ [][\A t \in DOMAIN scheduled :
            (scheduled[t].state = "pending" /\ IsTimer(lastEvent', t)) =>
                /\ scheduled'[t].state = "fired"
                /\ _button_hold_action_committed' =
                       _button_hold_action_committed]_vars
    /\ [](\A c \in ArrowButtons :
            (IsRelease(lastEvent, c) /\ FiredFor(c)) =>
                /\ NumCalls(calls, ShortPressFns) = 0
                /\ ~Called(calls, "NavigationMode.NextMode")
                /\ ~Called(calls, "NavigationMode.PreviousMode"))

\* the left arrow is released after its long press has toggled the window,
\* the flag being false
C20_Witness ==
    /\ IsRelease(lastEvent, LeftCtl)
    /\ FiredFor(LeftCtl)
    /\ ~_button_hold_action_committed
    /\ calls = <<>>
    /\ navIndex = 0

---------------------------------------------------------------------------
(* Releases that find no pending task *)

\* C21: a release that reaches _detect_long_press while the control has no
\* pending task recorded (it was never pressed, or its task has fired or
\* was cancelled by an earlier release) runs no short-press and no
\* long-press function, and leaves the scheduler and the runs of every
\* task as they were.
C21_ReleaseWithoutPendingTask ==
    [][\A c \in LongPressControls :
          (IsRelease(lastEvent', c) /\ ~PendingFor(c)) =>
              /\ NumCalls(calls', ShortPressFns \cup LongPressFns) = 0
              /\ calls' = <<>>
              /\ scheduled' = scheduled
              /\ taskRuns' = taskRuns]_vars

\* the undo button is released without ever having been pressed, while
\* another control's task is pending
C21_Witness ==
    /\ IsRelease(lastEvent, UndoCtl)
    /\ _long_press_tasks[UndoCtl] = NoTask
    /\ calls = <<>>
    /\ \E t \in DOMAIN scheduled : scheduled[t].state = "pending"

---------------------------------------------------------------------------
(* Properties of the entries' filters *)

\* the event is a command whose control is registered with no filter
UnguardedCommand(e) ==
    /\ e.kind = "midi" /\ e.midiId = CommandId
    /\ CommandHandler(e.controlNum) # "none"
    /\ e.controlNum \notin IgnoreRelease

\* the event is a command of the live-part button, which line 100
\* registers with ignore_release
GuardedCommand(e) ==
    /\ e.kind = "midi" /\ e.midiId = CommandId
    /\ e.controlNum = LivePart1Ctl

\* C22 as stated: a release (control value 0) of a control whose handler
\* is registered without a filter invokes no handler: no call is made.
C22_UnguardedPressOnly ==
    (UnguardedCommand(lastEvent) /\ lastEvent.controlVal = 0) =>
        calls = <<>>

\* C22 amended: a handler registered with the ignore_release filter is
\* invoked for presses only, a release of its control invokes nothing and
\* changes nothing; a handler registered without a filter is invoked for
\* presses and releases alike (the stop and record handlers broadcast the
\* button-up, the slider handler and, the mask being empty and save up,
\* the encoder handler forward a value of 0).
C22_OnlyIgnoreReleaseIsPressOnly ==
    /\ [][GuardedCommand(lastEvent') =>
            IF lastEvent'.controlVal # 0
            THEN calls' = <<[fn |-> "encoders.ToggleKnobMode", arg |-> 0]>>
            ELSE /\ calls' = <<>>
                 /\ UNCHANGED <<_button_mode, _button_hold_action_committed,
                                _pattern_mode_down, _long_press_tasks,
                                navIndex, scheduled,
                                _current_playlist_track_index>>]_vars
    /\ [](\A b \in {StopCtl, RecCtl} :
            IsRelease(lastEvent, b) =>
                CalledWith(calls,
                    "dispatch_message_to_other_scripts.BTN_UP", b))
    /\ []((/\ IsNavTurn(lastEvent) /\ lastEvent.controlVal = 0
           /\ _button_mode = 0 /\ ~_pattern_mode_down) =>
            CalledWith(calls, "NavigationMode.UpdateValue", 0))
    /\ []((lastEvent.kind = "midi" /\ lastEvent.midiId = SliderId
           /\ lastEvent.controlVal = 0) =>
            CalledWith(calls, "encoders.ProcessSliderInput.value", 0))

\* the live-part button is released while stop is held: nothing is invoked
C22_Witness ==
    /\ IsRelease(lastEvent, LivePart1Ctl)
    /\ GuardedCommand(lastEvent)
    /\ _button_mode = STOP_BUTTON_MASK
    /\ calls = <<>>

---------------------------------------------------------------------------
(* The Target Mix Track mode: the left arrow selects it from the first     *)
(* mode, the main encoder then moves the channel's mixer track             *)

\* largest small mixer track count tried
MaxMixerTracks == 3
\* control values the main encoder sends in the mixer specification:
\* deltas 1, 2, 63, -1 and -63
MixerTurnVals == {1, 2, 63, 65, 127}
\* mixer track counts tried: small ones and the host's 127
MixerCounts == (2 .. MaxMixerTracks) \cup {127}

\* the turn reaches OnUpdateTargetMixerTrack, which queries the mixer
ReadsMixer ==
    /\ ~_pattern_mode_down
    /\ _button_mode = 0
    /\ GetMode(Self) = "Target Mix Track"

\* The main encoder is turned, the mixer having any of the track counts
\* and the selected channel being routed to its first or its last track.
MixerTurn ==
    \E v \in MixerTurnVals, n \in MixerCounts, ch \in {-1, 0},
       same \in BOOLEAN :
        \E prev \in {0, n - 2} :
            LET answers == [mixerTrackCount |-> n, targetFxTrack |-> prev,
                            routedChannel |-> ch, sameTrackName |-> same]
            IN  /\ ~ReadsMixer => answers = NoAnswers.mixer
                /\ ch < 0 => ~same
                /\ Deliver(Event(KnobId, NavKnobCtl, v),
                           [NoAnswers EXCEPT !.mixer = answers])
                /\ UNCHANGED <<taskRuns, arrowTurned, saveOps, display>>

\* The left arrow goes down.
MixerStepPress ==
    /\ LeftCtl \notin held
    /\ Len(scheduled) < MaxModeSteps
    /\ Deliver(Event(CommandId, LeftCtl, PressVal), NoAnswers)
    /\ UNCHANGED <<taskRuns, arrowTurned, saveOps, display>>

NextMixer ==
    \/ MixerStepPress
    \/ ArrowRelease(LeftCtl)
    \/ \E t \in 1 .. MaxModeSteps : TimerFires(t)
    \/ MixerTurn

SpecMixer == Init /\ [][NextMixer]_vars

\* C23: whenever OnUpdateTargetMixerTrack runs with a mixer track count n
\* of at least 2, a previous target track in 0 .. n-2 and a decoded delta
\* in -63 .. 63, the track it makes the target lies in 0 .. n-2.
C23_TargetMixerTrackInRange ==
    (IsNavTurn(lastEvent) /\ Called(calls, "OnUpdateTargetMixerTrack")) =>
        \A i \in Calls(calls, "mixer.trackCount"),
           j \in Calls(calls, "mixer.setTrackNumber") :
            calls[j].arg \in 0 .. (calls[i].arg - 2)

---------------------------------------------------------------------------
(* The playlist track selection: save, the left arrow (two taps select the *)
(* Playlist Track mode), the track read and write buttons and the encoder  *)

\* buttons held and released in the playlist specification
PlaylistButtons == {SaveCtl, LeftCtl}
\* control values the main encoder sends in the playlist specification:
\* deltas 1, 63, -1 and -63
PlaylistTurnVals == {1, 63, 65, 127}

PlaylistPress(c) ==
    /\ c \notin held
    /\ c \in LongPressControls => Len(scheduled) < MaxNavPresses
    /\ Deliver(Event(CommandId, c, PressVal), NoAnswers)
    /\ UNCHANGED <<taskRuns, arrowTurned, saveOps, display>>

\* The track read or the track write button is pressed.
TrackStep(c) ==
    /\ Deliver(Event(CommandId, c, PressVal), NoAnswers)
    /\ UNCHANGED <<taskRuns, arrowTurned, saveOps, display>>

PlaylistTurn ==
    \E v \in PlaylistTurnVals :
        /\ Deliver(Event(KnobId, NavKnobCtl, v), NoAnswers)
        /\ UNCHANGED <<taskRuns, arrowTurned, saveOps, display>>

NextPlaylist ==
    \/ \E c \in PlaylistButtons : PlaylistPress(c)
    \/ \E c \in PlaylistButtons : ArrowRelease(c)
    \/ \E c \in {TrackReadCtl, TrackWriteCtl} : TrackStep(c)
    \/ PlaylistTurn
    \/ \E t \in 1 .. MaxNavPresses : TimerFires(t)

SpecPlaylist == Init /\ [][NextPlaylist]_vars

\* C24: the playlist having TrackCount tracks throughout, the current
\* playlist track index stays within 1 .. TrackCount under encoder turns
\* in Playlist Track mode or with save held, track read and write steps and
\* pattern jumps.
C24_TrackIndexInRange ==
    _current_playlist_track_index \in 1 .. TrackCount

\* a turn by 63 in Playlist Track mode leaves the index at the last track
C24_Witness ==
    /\ IsNavTurn(lastEvent)
    /\ lastEvent.controlVal = 63
    /\ GetMode(Self) = "Playlist Track"
    /\ ~_pattern_mode_down
    /\ _button_mode = 0
    /\ Called(calls, "OnUpdatePlaylistTrack")
    /\ _current_playlist_track_index = TrackCount

---------------------------------------------------------------------------
(* Properties of the arrows' escape chord *)

\* the arrow opposite to arrow a
OtherArrow(a) == IF a = LeftCtl THEN RightCtl ELSE LeftCtl

\* C25: a press of an arrow triggers ui.escape only if the other arrow is
\* held; a press of an arrow while no button other than loop, record, play
\* and stop is held triggers no escape, sets the arrow's own mask value in
\* the modifier mask and schedules the arrow's long-press task.
C25_EscapeOnlyWithOtherArrow ==
    \A a \in ArrowButtons :
        IsPress(lastEvent, a) =>
            /\ Called(calls, "ui.escape") => OtherArrow(a) \in held
            /\ (held \ {a}) \subseteq ModeButtons =>
                  /\ ~Called(calls, "ui.escape")
                  /\ BitAnd(_button_mode, ButtonMask(a)) = ButtonMask(a)
                  /\ PendingFor(a)

---------------------------------------------------------------------------
(* Properties of the track marker *)

\* C26: the playlist starting without a marked track, after any sequence
\* of track selections at most one track name carries the '* ' marker, and
\* a marked track is the one at the current playlist track index.
C26_SingleMarkerAtCurrent ==
    /\ Cardinality(trackMarked) <= 1
    /\ trackMarked \subseteq {_current_playlist_track_index}

---------------------------------------------------------------------------
(* Properties of the save button *)

\* the calls a step of the playlist track selection makes
TrackStepCalls ==
    {"patterns.jumpToPattern", "paged_display.SetPageLines.hint",
     "paged_display.SetActivePage.hint"}

\* C27: a main-encoder turn received while save is held only steps the
\* playlist track selection: it invokes no button's remapped command and
\* not the navigation turn-handler, whatever the modifier mask, leaves the
\* mask and the hold-committed flag as they were and marks the playlist
\* track as updated.
C27_SaveHeldTurnStepsTrack ==
    [][(IsNavTurn(lastEvent') /\ SaveCtl \in held) =>
          /\ \A i \in DOMAIN calls' : calls'[i].fn \in TrackStepCalls
          /\ \A x \in SurfaceButtons : ~Called(calls', HoldCommand(x))
          /\ ~Called(calls', "NavigationMode.UpdateValue")
          /\ _button_hold_action_committed' = _button_hold_action_committed
          /\ _button_mode' = _button_mode
          /\ _playlist_track_updated'
          /\ _current_playlist_track_index' \in
                 {_current_playlist_track_index,
                  _current_playlist_track_index
                      + _get_knob_delta(lastEvent')}]_vars

\* a turn with save and loop held steps to the second track; the flag stays
\* false
C27_Witness ==
    /\ IsNavTurn(lastEvent)
    /\ held = {SaveCtl, LoopCtl}
    /\ _button_mode = LOOP_BUTTON_MASK
    /\ ~_button_hold_action_committed
    /\ _current_playlist_track_index = 2
    /\ _playlist_track_updated

\* buttons whose press is a playlist track operation while save is held
TrackOpButtons == {TrackReadCtl, TrackWriteCtl, SoloCtl, MuteCtl}

\* the event is a main-encoder turn or the press of a track read, track
\* write, solo or mute button
IsTrackOp(event) ==
    \/ event.midiId = KnobId /\ event.controlNum = NavKnobCtl
    \/ /\ event.midiId = CommandId
       /\ event.controlNum \in TrackOpButtons
       /\ _is_pressed(event)

\* An event is delivered and saveOps follows it: a press of save starts a
\* new hold, a playlist track operation during the hold is remembered.
DeliverSaveTracked(event) ==
    /\ Deliver(event, NoAnswers)
    /\ saveOps' =
           IF event.midiId = CommandId /\ event.controlNum = SaveCtl
              /\ _is_pressed(event)
           THEN FALSE
           ELSE IF SaveCtl \in held /\ IsTrackOp(event) THEN TRUE
           ELSE saveOps
    /\ UNCHANGED <<taskRuns, arrowTurned, display>>

SaveOpsPress(c) ==
    /\ c \notin held
    /\ c \in LongPressControls => Len(scheduled) < MaxNavPresses
    /\ DeliverSaveTracked(Event(CommandId, c, PressVal))

SaveOpsRelease(c) ==
    /\ c \in held
    /\ DeliverSaveTracked(Event(CommandId, c, 0))

SaveOpsTurn ==
    \E v \in KnobVals : DeliverSaveTracked(Event(KnobId, NavKnobCtl, v))

NextSaveOps ==
    \/ \E c \in PlaylistButtons \cup TrackOpButtons : SaveOpsPress(c)
    \/ \E c \in PlaylistButtons \cup TrackOpButtons : SaveOpsRelease(c)
    \/ SaveOpsTurn
    \/ \E t \in 1 .. MaxNavPresses : TimerFires(t)

SpecSaveOps == Init /\ [][NextSaveOps]_vars

\* C28: on the release of the save button transport.setLoopMode is invoked
\* if and only if no main-encoder turn and no press of track read, track
\* write, solo or mute was received between the button's press and that
\* release.
C28_LoopModeIffNoTrackOp ==
    IsRelease(lastEvent, SaveCtl) =>
        (Called(calls, "transport.setLoopMode") <=> ~saveOps)

\* save is released after an operation during the hold that left the
\* track index where it was: the loop mode is not switched
C28_Witness ==
    /\ IsRelease(lastEvent, SaveCtl)
    /\ saveOps
    /\ calls = <<>>
    /\ _current_playlist_track_index = 1
    /\ trackMarked = {}

---------------------------------------------------------------------------
(* Naming a new pattern.  A name is the sequence of the pieces it is       *)
(* written with: the marker '* ', a base name, and the suffixes ' #i' and  *)
(* ' - n' that _next_pattern_name appends; two names are the same string   *)
(* exactly when they are the same sequence of pieces.                      *)

\* patterns.patternCount() of the host when a pattern is created
MaxPatterns == 2

Marker == "* "

\* ' #%d' % i
HashSuffix(i) ==
    CASE i = 1 -> " #1" [] i = 2 -> " #2" [] i = 3 -> " #3" [] i = 4 -> " #4"

\* ' - %d' % n
DashSuffix(n) ==
    CASE n = 1 -> " - 1" [] n = 2 -> " - 2" [] n = 3 -> " - 3"
      [] n = 4 -> " - 4" [] n = 5 -> " - 5"

\* names the host's patterns and its selected channel bear
RawNames ==
    {<<"A">>, <<"A", " #1">>, <<"A", " #2">>, <<"B">>,
     <<Marker, "A">>, <<Marker, "A", " #1">>}

\* the lists of pattern names the host may hold
PatternNameLists ==
    UNION {[1 .. n -> RawNames] : n \in 0 .. MaxPatterns}

_strip_pattern_name(name) ==
    IF Len(name) >= 1 /\ name[1] = Marker THEN Tail(name) ELSE name

\* the values the generator of _all_pattern_names yields, in order
_all_pattern_names(names) ==
    [i \in 1 .. Len(names) |-> _strip_pattern_name(names[i])]

\* x in pattern_names: the generator, of which pos values are consumed,
\* is advanced until it yields x
FoundAt(x, yielded, pos) ==
    {k \in (pos + 1) .. Len(yielded) : yielded[k] = x}

\* the number of values consumed once the membership test has returned
ConsumedAfter(x, yielded, pos) ==
    IF FoundAt(x, yielded, pos) = {} THEN Len(yielded)
    ELSE CHOOSE k \in FoundAt(x, yielded, pos) :
             \A m \in FoundAt(x, yielded, pos) : k <= m

\* the loop of _next_pattern_name from suggestion i on
RECURSIVE SuggestFrom(_, _, _, _)
SuggestFrom(name, yielded, i, pos) ==
    IF i > Len(yielded)
    THEN Append(name, DashSuffix(Len(yielded) + 1))
    ELSE LET suggested == Append(name, HashSuffix(i))
         IN  IF FoundAt(suggested, yielded, pos) = {} THEN suggested
             ELSE SuggestFrom(name, yielded, i + 1,
                              ConsumedAfter(suggested, yielded, pos))

_next_pattern_name(names, channel_name) ==
    LET pattern_names == _all_pattern_names(names)
        name == _strip_pattern_name(channel_name)
    IN  IF FoundAt(name, pattern_names, 0) = {} THEN name
        ELSE SuggestFrom(name, pattern_names, 1,
                         ConsumedAfter(name, pattern_names, 0))

_new_empty_pattern(s, names, channel_name) ==
    LET pattern_id == Len(names) + 1
        pattern_name == _next_pattern_name(names, channel_name)
        s1 == Call(Call(s, "patterns.getPatternName", names),
                   "channels.getChannelName", channel_name)
        s2 == Call(Call(s1, "patterns.setPatternName", pattern_name),
                   "patterns.setPatternColor", pattern_id)
        s3 == Call([s2 EXCEPT !.patternNumber = pattern_id],
                   "patterns.jumpToPattern", pattern_id)
    IN  Call(s3, "patterns.selectPattern", pattern_id)

\* A track record button is tapped with nothing selected in the
\* arrangement: its short press creates an empty pattern, the host holding
\* any list of pattern names and any name of the selected channel.
NewEmptyPattern ==
    \E names \in PatternNameLists, channel_name \in RawNames :
        /\ Becomes(_new_empty_pattern(Self, names, channel_name))
        /\ lastEvent' = [kind |-> "new_pattern", midiId |-> 0, status |-> 0,
                         controlNum |-> 0, controlVal |-> 0]
        /\ returned' = FALSE
        /\ UNCHANGED <<held, turnedWhileHeld, taskRuns, arrowTurned,
                       saveOps, display>>

NextPattern == NewEmptyPattern

SpecPattern == Init /\ [][NextPattern]_vars

\* C29: the name _next_pattern_name gives a new pattern differs from the
\* marker-stripped name of every pattern the host holds, whatever the list
\* of pattern names and the name of the selected channel.
C29_NextPatternNameIsNew ==
    lastEvent.kind = "new_pattern" =>
        \A i \in Calls(calls, "patterns.getPatternName"),
           j \in Calls(calls, "patterns.setPatternName") :
            \A k \in DOMAIN calls[i].arg :
                _strip_pattern_name(calls[i].arg[k]) # calls[j].arg

TypeOK ==
    /\ _button_mode \in 0 .. 63
    /\ navIndex \in 0 .. 11
    /\ Len(scheduled) <= MaxTasks

====
